---- MODULE Spec2Model ----
\* Model of cpr: the commit analyzer (package commit: commit-type
\* classification, scope detection, title and summary generation), the
\* helpers of package github (ApplyTemplate, GetToken, ParseGitRemoteURL) and
\* the flow of createPR (package cmd).
\* Go strings are modelled as sequences of one-character strings, so that
\* regular-expression matching, lower-casing, splitting, replacing and
\* formatting are computed character by character as the code computes them.
EXTENDS Integers, Sequences, FiniteSets, TLC

VARIABLES diff, changedFiles, titleCalls, summaryCalls,
          template, title, body, applyCalls,
          tokenEnv, tokenCalls,
          remoteURL, parseCalls,
          cli, events

\* the Analyzer: its two fields and the calls made on it
analyzerVars == <<diff, changedFiles, titleCalls, summaryCalls>>

\* ApplyTemplate: its three arguments and the calls made
templateVars == <<template, title, body, applyCalls>>

\* GetToken: the environment it reads and the calls made
tokenVars == <<tokenEnv, tokenCalls>>

\* ParseGitRemoteURL: its argument and the calls made
remoteVars == <<remoteURL, parseCalls>>

\* createPR: its position, locals and output, and the calls it has made
cliVars == <<cli, events>>

vars == <<analyzerVars, templateVars, tokenVars, remoteVars, cliVars>>

\* ---------------------------------------------------------------- bounds
MaxTypeFiles == 2
MaxScopeFiles == 2
MaxLines == 4
MaxCalls == 2

\* ------------------------------------------------------ character layer
NL == "\n"
TAB == "\t"

\* the backquote character (U+0060); a string literal cannot hold it, so
\* it is written as a token that no other character equals
Backquote == "U+0060"

\* \s of Go's regexp (RE2): [\t\n\f\r ]
SpaceChars == {" ", "\t", "\n", "\f", "\r"}

Digits == {"0", "1", "2", "3", "4", "5", "6", "7", "8", "9"}

UpperLetters ==
  {"A", "B", "C", "D", "E", "F", "G", "H", "I", "J", "K", "L", "M",
   "N", "O", "P", "Q", "R", "S", "T", "U", "V", "W", "X", "Y", "Z"}

LowerLetters ==
  {"a", "b", "c", "d", "e", "f", "g", "h", "i", "j", "k", "l", "m",
   "n", "o", "p", "q", "r", "s", "t", "u", "v", "w", "x", "y", "z"}

\* \w of Go's regexp: [0-9A-Za-z_]
WordChars == Digits \cup UpperLetters \cup LowerLetters \cup {"_"}

LowerOf ==
  [c \in UpperLetters |->
     CASE c = "A" -> "a" [] c = "B" -> "b" [] c = "C" -> "c" [] c = "D" -> "d"
       [] c = "E" -> "e" [] c = "F" -> "f" [] c = "G" -> "g" [] c = "H" -> "h"
       [] c = "I" -> "i" [] c = "J" -> "j" [] c = "K" -> "k" [] c = "L" -> "l"
       [] c = "M" -> "m" [] c = "N" -> "n" [] c = "O" -> "o" [] c = "P" -> "p"
       [] c = "Q" -> "q" [] c = "R" -> "r" [] c = "S" -> "s" [] c = "T" -> "t"
       [] c = "U" -> "u" [] c = "V" -> "v" [] c = "W" -> "w" [] c = "X" -> "x"
       [] c = "Y" -> "y" [] c = "Z" -> "z"]

\* strings.ToLower on ASCII text
ToLower(s) == [i \in 1..Len(s) |-> IF s[i] \in UpperLetters THEN LowerOf[s[i]] ELSE s[i]]

\* the literal p occurs in s starting at position i
HasAt(s, p, i) ==
  /\ i >= 1
  /\ i + Len(p) - 1 <= Len(s)
  /\ \A k \in 1..Len(p) : s[i + k - 1] = p[k]

\* strings.Contains / an unanchored literal pattern
Contains(s, p) == \E i \in 1..(Len(s) - Len(p) + 1) : HasAt(s, p, i)

\* strings.HasPrefix
HasPrefix(s, p) == HasAt(s, p, 1)

\* a literal followed by $ (end of text; no multi-line flag is set)
EndsWith(s, p) == Len(s) >= Len(p) /\ HasAt(s, p, Len(s) - Len(p) + 1)

\* the unanchored pattern  a\s*b
ContainsGap(s, a, b) ==
  \E i \in 1..Len(s) :
    /\ HasAt(s, a, i)
    /\ \E j \in (i + Len(a))..Len(s) :
         /\ \A k \in (i + Len(a))..(j - 1) : s[k] \in SpaceChars
         /\ HasAt(s, b, j)

RECURSIVE Join(_, _)
\* strings.Join
Join(parts, sep) ==
  IF Len(parts) = 0 THEN <<>>
  ELSE IF Len(parts) = 1 THEN parts[1]
  ELSE parts[1] \o sep \o Join(Tail(parts), sep)

RECURSIVE SplitFrom(_, _, _, _)
SplitFrom(s, sep, i, cur) ==
  IF i > Len(s) THEN <<cur>>
  ELSE IF s[i] = sep THEN <<cur>> \o SplitFrom(s, sep, i + 1, <<>>)
  ELSE SplitFrom(s, sep, i + 1, Append(cur, s[i]))

\* strings.Split on a one-character separator: always at least one part
Split(s, sep) == SplitFrom(s, sep, 1, <<>>)

\* ------------------------------------------------------------ CommitType
TypeFeat == <<"f", "e", "a", "t">>
TypeFix == <<"f", "i", "x">>
TypeDocs == <<"d", "o", "c", "s">>
TypeStyle == <<"s", "t", "y", "l", "e">>
TypeRefactor == <<"r", "e", "f", "a", "c", "t", "o", "r">>
TypePerf == <<"p", "e", "r", "f">>
TypeTest == <<"t", "e", "s", "t">>
TypeBuild == <<"b", "u", "i", "l", "d">>
TypeCI == <<"c", "i">>
TypeChore == <<"c", "h", "o", "r", "e">>

CommitType ==
  {TypeFeat, TypeFix, TypeDocs, TypeStyle, TypeRefactor, TypePerf, TypeTest,
   TypeBuild, TypeCI, TypeChore}

\* ------------------------------------------------- file-path patterns
\* (?i)(_test\.go|\.test\.|spec\.|test/)
testFilePattern(file) ==
  LET l == ToLower(file) IN
    \/ Contains(l, <<"_", "t", "e", "s", "t", ".", "g", "o">>)
    \/ Contains(l, <<".", "t", "e", "s", "t", ".">>)
    \/ Contains(l, <<"s", "p", "e", "c", ".">>)
    \/ Contains(l, <<"t", "e", "s", "t", "/">>)

\* (?i)(readme|\.md$|docs/)
docFilePattern(file) ==
  LET l == ToLower(file) IN
    \/ Contains(l, <<"r", "e", "a", "d", "m", "e">>)
    \/ EndsWith(l, <<".", "m", "d">>)
    \/ Contains(l, <<"d", "o", "c", "s", "/">>)

\* (?i)(makefile|dockerfile|\.yml$|\.yaml$|go\.mod|go\.sum|package\.json)
buildFilePattern(file) ==
  LET l == ToLower(file) IN
    \/ Contains(l, <<"m", "a", "k", "e", "f", "i", "l", "e">>)
    \/ Contains(l, <<"d", "o", "c", "k", "e", "r", "f", "i", "l", "e">>)
    \/ EndsWith(l, <<".", "y", "m", "l">>)
    \/ EndsWith(l, <<".", "y", "a", "m", "l">>)
    \/ Contains(l, <<"g", "o", ".", "m", "o", "d">>)
    \/ Contains(l, <<"g", "o", ".", "s", "u", "m">>)
    \/ Contains(l, <<"p", "a", "c", "k", "a", "g", "e", ".", "j", "s", "o", "n">>)

\* (?i)(\.github/|\.circleci/|\.travis|jenkins)
ciFilePattern(file) ==
  LET l == ToLower(file) IN
    \/ Contains(l, <<".", "g", "i", "t", "h", "u", "b", "/">>)
    \/ Contains(l, <<".", "c", "i", "r", "c", "l", "e", "c", "i", "/">>)
    \/ Contains(l, <<".", "t", "r", "a", "v", "i", "s">>)
    \/ Contains(l, <<"j", "e", "n", "k", "i", "n", "s">>)

\* go\.mod  (case-sensitive)
goModPattern(file) == Contains(file, <<"g", "o", ".", "m", "o", "d">>)

\* (?i)test
anyTestPattern(file) == Contains(ToLower(file), <<"t", "e", "s", "t">>)

\* the pattern strings that the code passes to hasFilePattern
DocPattern == "(?i)(readme|\\.md$|docs/)"

BuildPattern == "(?i)(makefile|dockerfile|\\.yml$|\\.yaml$|go\\.mod|go\\.sum|package\\.json)"

CIPattern == "(?i)(\\.github/|\\.circleci/|\\.travis|jenkins)"

GoModPattern == "go\\.mod"

AnyTestPattern == "(?i)test"

\* regexp.MustCompile(pattern).MatchString(file) for the patterns above
MatchString(pattern, file) ==
  CASE pattern = DocPattern -> docFilePattern(file)
    [] pattern = BuildPattern -> buildFilePattern(file)
    [] pattern = CIPattern -> ciFilePattern(file)
    [] pattern = GoModPattern -> goModPattern(file)
    [] pattern = AnyTestPattern -> anyTestPattern(file)

\* Analyzer.hasFilePattern: some changed file matches the pattern
hasFilePattern(pattern, files) == \E i \in 1..Len(files) : MatchString(pattern, files[i])

\* variant: only the first changed file is examined
hasNonTestChangesFirstOnly(files) == Len(files) > 0 /\ ~testFilePattern(files[1])

\* Analyzer.hasNonTestChanges: some changed file does not match the test pattern
hasNonTestChanges(files) == \E i \in 1..Len(files) : ~testFilePattern(files[i])

\* ------------------------------------------------- diff keyword patterns
\* bugPatterns, matched against the lower-cased diff
bugPatterns(lowerDiff) ==
  \/ ContainsGap(lowerDiff, <<"f", "i", "x">>, <<"(">>)
  \/ ContainsGap(lowerDiff, <<"b", "u", "g">>, <<"f", "i", "x">>)
  \/ ContainsGap(lowerDiff, <<"e", "r", "r", "o", "r">>, <<"h", "a", "n", "d", "l", "i", "n", "g">>)
  \/ ContainsGap(lowerDiff, <<"n", "i", "l">>, <<"p", "o", "i", "n", "t", "e", "r">>)
  \/ Contains(lowerDiff, <<"p", "a", "n", "i", "c">>)
  \/ Contains(lowerDiff, <<"s", "e", "g", "f", "a", "u", "l", "t">>)
  \/ Contains(lowerDiff, <<"c", "r", "a", "s", "h">>)
  \/ Contains(lowerDiff, <<"e", "x", "c", "e", "p", "t", "i", "o", "n">>)

\* perfPatterns
perfPatterns(lowerDiff) ==
  \/ Contains(lowerDiff, <<"p", "e", "r", "f", "o", "r", "m", "a", "n", "c", "e">>)
  \/ Contains(lowerDiff, <<"o", "p", "t", "i", "m", "i", "z", "e">>)
  \/ ContainsGap(lowerDiff, <<"s", "p", "e", "e", "d">>, <<"u", "p">>)
  \/ ContainsGap(lowerDiff, <<"r", "e", "d", "u", "c", "e">>, <<"m", "e", "m", "o", "r", "y">>)
  \/ Contains(lowerDiff, <<"c", "a", "c", "h", "e">>)

\* refactorPatterns
refactorPatterns(lowerDiff) ==
  \/ Contains(lowerDiff, <<"r", "e", "f", "a", "c", "t", "o", "r">>)
  \/ Contains(lowerDiff, <<"r", "e", "n", "a", "m", "e">>)
  \/ ContainsGap(lowerDiff, <<"m", "o", "v", "e">>, <<"t", "o">>)
  \/ Contains(lowerDiff, <<"e", "x", "t", "r", "a", "c", "t">>)
  \/ Contains(lowerDiff, <<"s", "i", "m", "p", "l", "i", "f", "y">>)
  \/ ContainsGap(lowerDiff, <<"c", "l", "e", "a", "n">>, <<"u", "p">>)

\* the coarse code-addition test that guards the first "return TypeFeat"
hasCodeAddition(lowerDiff) ==
  \/ Contains(lowerDiff, <<"+", "f", "u", "n", "c">>)
  \/ Contains(lowerDiff, <<"+", "t", "y", "p", "e">>)
  \/ Contains(lowerDiff, <<"+", "s", "t", "r", "u", "c", "t">>)
  \/ Contains(lowerDiff, <<"+", "i", "n", "t", "e", "r", "f", "a", "c", "e">>)

\* ------------------------------------------------------ detectCommitType
\* variant: the hasTestFiles check left out of the test guard
hasTestFilesUnchecked(files) == TRUE

\* the loop that sets hasTestFiles
hasTestFiles(files) == \E i \in 1..Len(files) : testFilePattern(files[i])

\* variant: the diff keyword checks placed before the docs/build/ci checks
detectCommitTypeKeywordsFirst(d, files) ==
  LET lowerDiff == ToLower(d) IN
    IF hasTestFiles(files) /\ ~hasNonTestChanges(files) THEN TypeTest
    ELSE IF bugPatterns(lowerDiff) THEN TypeFix
    ELSE IF perfPatterns(lowerDiff) THEN TypePerf
    ELSE IF refactorPatterns(lowerDiff) THEN TypeRefactor
    ELSE IF hasFilePattern(DocPattern, files) THEN TypeDocs
    ELSE IF hasFilePattern(BuildPattern, files) THEN TypeBuild
    ELSE IF hasFilePattern(CIPattern, files) THEN TypeCI
    ELSE TypeFeat

\* variant: no commit type returned when no guard matches
detectCommitTypeNoDefault(d, files) ==
  LET lowerDiff == ToLower(d) IN
    IF hasTestFiles(files) /\ ~hasNonTestChanges(files) THEN TypeTest
    ELSE IF hasFilePattern(DocPattern, files) THEN TypeDocs
    ELSE IF hasFilePattern(BuildPattern, files) THEN TypeBuild
    ELSE IF hasFilePattern(CIPattern, files) THEN TypeCI
    ELSE IF bugPatterns(lowerDiff) THEN TypeFix
    ELSE IF perfPatterns(lowerDiff) THEN TypePerf
    ELSE IF refactorPatterns(lowerDiff) THEN TypeRefactor
    ELSE IF hasCodeAddition(lowerDiff) THEN TypeFeat
    ELSE <<>>

\* Analyzer.detectCommitType: the chain of early returns
detectCommitType(d, files) ==
  LET lowerDiff == ToLower(d) IN
    IF hasTestFiles(files) /\ ~hasNonTestChanges(files) THEN TypeTest
    ELSE IF hasFilePattern(DocPattern, files) THEN TypeDocs
    ELSE IF hasFilePattern(BuildPattern, files) THEN TypeBuild
    ELSE IF hasFilePattern(CIPattern, files) THEN TypeCI
    ELSE IF bugPatterns(lowerDiff) THEN TypeFix
    ELSE IF perfPatterns(lowerDiff) THEN TypePerf
    ELSE IF refactorPatterns(lowerDiff) THEN TypeRefactor
    ELSE IF hasCodeAddition(lowerDiff) THEN TypeFeat
    ELSE TypeFeat

\* ------------------------------------------------------------ filepath.Dir
RECURSIVE CleanFold(_, _, _)
\* the element loop of filepath.Clean over the "/"-separated elements:
\* empty and "." elements are dropped, ".." removes the previous element
\* when there is one to remove and is kept in a relative path otherwise
CleanFold(segs, rooted, out) ==
  IF Len(segs) = 0 THEN out
  ELSE LET seg == Head(segs) IN
    IF seg = <<>> \/ seg = <<".">> THEN CleanFold(Tail(segs), rooted, out)
    ELSE IF seg = <<".", ".">> THEN
      IF Len(out) > 0 /\ out[Len(out)] # <<".", ".">>
        THEN CleanFold(Tail(segs), rooted, SubSeq(out, 1, Len(out) - 1))
      ELSE IF ~rooted THEN CleanFold(Tail(segs), rooted, Append(out, seg))
      ELSE CleanFold(Tail(segs), rooted, out)
    ELSE CleanFold(Tail(segs), rooted, Append(out, seg))

\* filepath.Clean (Unix separators)
Clean(path) ==
  IF Len(path) = 0 THEN <<".">>
  ELSE LET rooted == path[1] = "/"
           out == CleanFold(Split(path, "/"), rooted, <<>>)
       IN IF rooted THEN <<"/">> \o Join(out, <<"/">>)
          ELSE IF Len(out) = 0 THEN <<".">>
          ELSE Join(out, <<"/">>)

\* index of the last "/" of path, 0 when there is none
LastSlash(path) ==
  IF \E i \in 1..Len(path) : path[i] = "/"
    THEN CHOOSE i \in 1..Len(path) :
           path[i] = "/" /\ \A j \in (i + 1)..Len(path) : path[j] # "/"
    ELSE 0

\* filepath.Dir: all but the last element of path, cleaned
Dir(path) == Clean(SubSeq(path, 1, LastSlash(path)))

\* ------------------------------------------------------------ detectScope
ScopeMarkers == {<<"i", "n", "t", "e", "r", "n", "a", "l">>, <<"p", "k", "g">>, <<"c", "m", "d">>}

CmdPrefix == <<"c", "m", "d", "/">>

CliToken == <<"c", "l", "i">>

\* commonPrefixes[scope]++ on a Go map
Incr(m, scope) ==
  IF scope \in DOMAIN m THEN [m EXCEPT ![scope] = @ + 1] ELSE m @@ (scope :> 1)

\* variant: the loop over parts does not stop at the first marker, so the
\* segment after the last marker is the one tallied
tallyFileLastMarker(m, file) ==
  LET parts == Split(Dir(file), "/")
      marked == {i \in 1..Len(parts) : parts[i] \in ScopeMarkers}
      last == CHOOSE i \in marked : \A j \in marked : i >= j
      m1 == IF marked # {} /\ last + 1 <= Len(parts)
              THEN Incr(m, parts[last + 1]) ELSE m
  IN IF HasPrefix(file, CmdPrefix) THEN Incr(m1, CliToken) ELSE m1

\* the body of the loop over changedFiles in detectScope, for one file
tallyFile(m, file) ==
  LET parts == Split(Dir(file), "/")
      marked == {i \in 1..Len(parts) : parts[i] \in ScopeMarkers}
      first == CHOOSE i \in marked : \A j \in marked : i <= j
      m1 == IF marked # {} /\ first + 1 <= Len(parts)
              THEN Incr(m, parts[first + 1]) ELSE m
  IN IF HasPrefix(file, CmdPrefix) THEN Incr(m1, CliToken) ELSE m1

RECURSIVE tallyFiles(_, _)
\* the loop over changedFiles that fills commonPrefixes
tallyFiles(m, files) ==
  IF Len(files) = 0 THEN m
  ELSE tallyFiles(tallyFile(m, Head(files)), Tail(files))

\* commonPrefixes after the first loop of detectScope
commonPrefixes(files) == tallyFiles(<<>>, files)

RECURSIVE maxLoop(_, _, _, _)
\* the loop "for scope, count := range commonPrefixes" visiting the keys in
\* the order ord; a key replaces maxScope only on a strictly larger count
maxLoop(m, ord, maxScope, maxCount) ==
  IF Len(ord) = 0 THEN maxScope
  ELSE IF m[Head(ord)] > maxCount
    THEN maxLoop(m, Tail(ord), Head(ord), m[Head(ord)])
  ELSE maxLoop(m, Tail(ord), maxScope, maxCount)

RECURSIVE Perms(_)
\* the orders in which a range over a Go map with key set S may visit the
\* keys: the language leaves the iteration order unspecified
Perms(S) ==
  IF S = {} THEN {<<>>}
  ELSE UNION {{<<x>> \o p : p \in Perms(S \ {x})} : x \in S}

\* Analyzer.detectScope: the values the call can return, one for every
\* order in which the range over the map can visit its keys
detectScope(files) ==
  LET
    \* the second loop of detectScope over the map m, for one iteration order
    rangeMax(m, ord) == maxLoop(m, ord, <<>>, 0)
  IN
  IF Len(files) = 0 THEN {<<>>}
  ELSE LET m == commonPrefixes(files)
       IN {rangeMax(m, ord) : ord \in Perms(DOMAIN m)}

\* ---------------------------------------------------- analyzePrimaryChanges
FuncKeyword == <<"+", "f", "u", "n", "c">>

TypeKeyword == <<"+", "t", "y", "p", "e">>

\* first position >= i of line whose character is not in class (Len+1 if none)
SkipClass(line, i, class) ==
  IF \E j \in i..Len(line) : line[j] \notin class
    THEN CHOOSE j \in i..Len(line) :
           line[j] \notin class /\ \A k \in i..(j - 1) : line[k] \in class
    ELSE Len(line) + 1

\* FindStringSubmatch of ^<keyword>\s+(\w+) on one line: <<>> when the line
\* does not match, otherwise <<identifier>> (the capture group)
declMatch(line, keyword) ==
  IF ~HasPrefix(line, keyword) THEN <<>>
  ELSE LET s == Len(keyword) + 1
           w == SkipClass(line, s, SpaceChars)
           e == SkipClass(line, w, WordChars)
       IN IF w > s /\ e > w THEN <<SubSeq(line, w, e - 1)>> ELSE <<>>

AddWord == <<"a", "d", "d", " ">>

FunctionWord == <<" ", "f", "u", "n", "c", "t", "i", "o", "n">>

TypeWord == <<" ", "t", "y", "p", "e">>

RECURSIVE primaryLoop(_)
\* the loop over the lines of the diff: funcPattern first, else typePattern
primaryLoop(lines) ==
  IF Len(lines) = 0 THEN <<>>
  ELSE LET f == declMatch(Head(lines), FuncKeyword)
           t == declMatch(Head(lines), TypeKeyword)
       IN IF Len(f) > 0 THEN <<AddWord \o f[1] \o FunctionWord>> \o primaryLoop(Tail(lines))
          ELSE IF Len(t) > 0 THEN <<AddWord \o t[1] \o TypeWord>> \o primaryLoop(Tail(lines))
          ELSE primaryLoop(Tail(lines))

MaxPrimaryChanges == 3

\* variant: the slice is returned without the cap
analyzePrimaryChangesUncapped(d) == primaryLoop(Split(d, NL))

\* Analyzer.analyzePrimaryChanges
analyzePrimaryChanges(d) ==
  LET changes == primaryLoop(Split(d, NL)) IN
    IF Len(changes) > MaxPrimaryChanges THEN SubSeq(changes, 1, MaxPrimaryChanges)
    ELSE changes

\* ---------------------------------------------------- generateDescription
\* the switch on commitType; its default branch serves the types that
\* detectCommitType never returns
defaultDescription(commitType) ==
  CASE commitType = TypeFeat -> <<"a", "d", "d", " ", "n", "e", "w", " ", "f", "u", "n", "c", "t", "i", "o", "n", "a", "l", "i", "t", "y">>
    [] commitType = TypeFix -> <<"r", "e", "s", "o", "l", "v", "e", " ", "i", "s", "s", "u", "e", "s">>
    [] commitType = TypeDocs -> <<"u", "p", "d", "a", "t", "e", " ", "d", "o", "c", "u", "m", "e", "n", "t", "a", "t", "i", "o", "n">>
    [] commitType = TypeTest -> <<"a", "d", "d", " ", "t", "e", "s", "t", "s">>
    [] commitType = TypeBuild -> <<"u", "p", "d", "a", "t", "e", " ", "b", "u", "i", "l", "d", " ", "c", "o", "n", "f", "i", "g", "u", "r", "a", "t", "i", "o", "n">>
    [] commitType = TypeCI -> <<"u", "p", "d", "a", "t", "e", " ", "C", "I", " ", "c", "o", "n", "f", "i", "g", "u", "r", "a", "t", "i", "o", "n">>
    [] commitType = TypeRefactor -> <<"i", "m", "p", "r", "o", "v", "e", " ", "c", "o", "d", "e", " ", "s", "t", "r", "u", "c", "t", "u", "r", "e">>
    [] commitType = TypePerf -> <<"i", "m", "p", "r", "o", "v", "e", " ", "p", "e", "r", "f", "o", "r", "m", "a", "n", "c", "e">>
    [] OTHER -> <<"u", "p", "d", "a", "t", "e", " ", "c", "o", "d", "e", "b", "a", "s", "e">>

\* variant: the structural-addition phrase is used for feat only
generateDescriptionFeatOnly(d, files) ==
  LET commitType == detectCommitType(d, files)
      primaryChanges == analyzePrimaryChanges(d)
  IN IF commitType = TypeFeat /\ Len(primaryChanges) > 0 THEN primaryChanges[1]
     ELSE defaultDescription(commitType)

\* Analyzer.generateDescription
generateDescription(d, files) ==
  LET commitType == detectCommitType(d, files)
      primaryChanges == analyzePrimaryChanges(d)
  IN IF Len(primaryChanges) > 0 THEN primaryChanges[1]
     ELSE defaultDescription(commitType)

\* ------------------------------------------------------------ GenerateTitle
\* variant: the scoped format used whatever the scope
formatTitleAlwaysScoped(commitType, scope, description) ==
  commitType \o <<"(">> \o scope \o <<")", ":", " ">> \o description

\* the two fmt.Sprintf calls of GenerateTitle
formatTitle(commitType, scope, description) ==
  IF scope # <<>>
    THEN commitType \o <<"(">> \o scope \o <<")", ":", " ">> \o description
    ELSE commitType \o <<":", " ">> \o description

\* ---------------------------------------------------------- analyzeChanges
UpdateDependencies == <<"U", "p", "d", "a", "t", "e", " ", "d", "e", "p", "e", "n", "d", "e", "n", "c", "i", "e", "s">>

AddOrUpdateTests == <<"A", "d", "d", " ", "o", "r", " ", "u", "p", "d", "a", "t", "e", " ", "t", "e", "s", "t", "s">>

VariousImprovements == <<"V", "a", "r", "i", "o", "u", "s", " ", "i", "m", "p", "r", "o", "v", "e", "m", "e", "n", "t", "s", " ", "a", "n", "d", " ", "u", "p", "d", "a", "t", "e", "s">>

\* the changes with the fallback decided on the structural phrases alone
analyzeChangesFallbackOnPrimary(d, files) ==
  LET c0 == analyzePrimaryChanges(d)
      c1 == IF Len(c0) = 0 THEN Append(c0, VariousImprovements) ELSE c0
      c2 == IF hasFilePattern(GoModPattern, files) THEN Append(c1, UpdateDependencies) ELSE c1
  IN IF hasFilePattern(AnyTestPattern, files) THEN Append(c2, AddOrUpdateTests) ELSE c2

\* Analyzer.analyzeChanges
analyzeChanges(d, files) ==
  LET c0 == analyzePrimaryChanges(d)
      c1 == IF hasFilePattern(GoModPattern, files) THEN Append(c0, UpdateDependencies) ELSE c0
      c2 == IF hasFilePattern(AnyTestPattern, files) THEN Append(c1, AddOrUpdateTests) ELSE c1
  IN IF Len(c2) = 0 THEN Append(c2, VariousImprovements) ELSE c2

\* ---------------------------------------------------------- GenerateSummary
SummaryHeading == <<"#", "#", " ", "S", "u", "m", "m", "a", "r", "y", "\n", "\n">>

ChangedFilesHeading == <<"\n", "#", "#", " ", "C", "h", "a", "n", "g", "e", "d", " ", "F", "i", "l", "e", "s", "\n", "\n">>

RECURSIVE changeBullets(_)
\* one "- %s\n" per change
changeBullets(changes) ==
  IF Len(changes) = 0 THEN <<>>
  ELSE <<"-", " ">> \o Head(changes) \o <<NL>> \o changeBullets(Tail(changes))

RECURSIVE fileBullets(_)
\* one bullet per changed file, the path between two backquotes
fileBullets(files) ==
  IF Len(files) = 0 THEN <<>>
  ELSE <<"-", " ", Backquote>> \o Head(files) \o <<Backquote, NL>> \o fileBullets(Tail(files))

\* the text with the file section written even for an empty file list
summaryTextAlwaysFiles(d, files) ==
  SummaryHeading \o changeBullets(analyzeChanges(d, files))
    \o ChangedFilesHeading \o fileBullets(files)

\* the text built by Analyzer.GenerateSummary
summaryText(d, files) ==
  SummaryHeading \o changeBullets(analyzeChanges(d, files))
    \o (IF Len(files) > 0 THEN ChangedFilesHeading \o fileBullets(files) ELSE <<>>)

\* ----------------------------------------------------------- ApplyTemplate
\* strings.Index, positions counted from 1: the first position where p
\* occurs in s, and 0 (for Go's -1) when it does not occur
Index(s, p) ==
  LET occ == {i \in 1..(Len(s) - Len(p) + 1) : HasAt(s, p, i)}
  IN IF occ = {} THEN 0 ELSE CHOOSE i \in occ : \A j \in occ : i <= j

RECURSIVE ReplaceFrom(_, _, _, _)
\* the loop of strings.Replace: up to n times (without limit when n < 0) the
\* text before the next occurrence of old is
\* copied and new is written for the occurrence, the search going on after it
ReplaceFrom(s, old, new, n) ==
  LET k == Index(s, old) IN
    IF k = 0 \/ n = 0 THEN s
    ELSE SubSeq(s, 1, k - 1) \o new
           \o ReplaceFrom(SubSeq(s, k + Len(old), Len(s)), old, new, n - 1)

\* a replacement of the first occurrence only
ReplaceAllOnce(s, old, new) == ReplaceFrom(s, old, new, 1)

\* strings.ReplaceAll with a non-empty old
ReplaceAll(s, old, new) == ReplaceFrom(s, old, new, -1)

RECURSIVE replaceTrace(_, _, _)
\* the successive values of result while the placeholders olds are replaced
\* by new, one ReplaceAll after the other
replaceTrace(s, olds, new) ==
  IF Len(olds) = 0 THEN <<>>
  ELSE LET r == ReplaceAll(s, Head(olds), new)
       IN <<r>> \o replaceTrace(r, Tail(olds), new)

\* the twelve successive values of result in the placeholder part of
\* ApplyTemplate
replacePlaceholders(tpl, ttl, summary) ==
  LET
    \* the title placeholders, in the order of their ReplaceAll calls
    TitlePlaceholders == <<<<"{", "{", "t", "i", "t", "l", "e", "}", "}">>, <<"{", "{", "T", "I", "T", "L", "E", "}", "}">>, <<"[", "T", "i", "t", "l", "e", "]">>, <<"[", "T", "I", "T", "L", "E", "]">>>>
    \* the description/summary placeholders, in the order of their ReplaceAll calls
    SummaryPlaceholders ==
      <<<<"{", "{", "d", "e", "s", "c", "r", "i", "p", "t", "i", "o", "n", "}", "}">>, <<"{", "{", "D", "E", "S", "C", "R", "I", "P", "T", "I", "O", "N", "}", "}">>, <<"{", "{", "s", "u", "m", "m", "a", "r", "y", "}", "}">>, <<"{", "{", "S", "U", "M", "M", "A", "R", "Y", "}", "}">>,
        <<"[", "D", "e", "s", "c", "r", "i", "p", "t", "i", "o", "n", "]">>, <<"[", "D", "E", "S", "C", "R", "I", "P", "T", "I", "O", "N", "]">>, <<"[", "S", "u", "m", "m", "a", "r", "y", "]">>, <<"[", "S", "U", "M", "M", "A", "R", "Y", "]">>>>
  IN
  LET t == replaceTrace(tpl, TitlePlaceholders, ttl)
  IN t \o replaceTrace(t[Len(t)], SummaryPlaceholders, summary)

\* the slice patterns of ApplyTemplate
SectionPatterns ==
  <<<<"#", "#", " ", "S", "u", "m", "m", "a", "r", "y">>, <<"#", "#", " ", "D", "e", "s", "c", "r", "i", "p", "t", "i", "o", "n">>, <<"#", "#", " ", "W", "h", "a", "t">>, <<"#", "#", " ", "C", "h", "a", "n", "g", "e", "s">>,
    <<"#", "#", "#", " ", "S", "u", "m", "m", "a", "r", "y">>, <<"#", "#", "#", " ", "D", "e", "s", "c", "r", "i", "p", "t", "i", "o", "n">>, <<"#", "#", "#", " ", "W", "h", "a", "t">>, <<"#", "#", "#", " ", "C", "h", "a", "n", "g", "e", "s">>>>

\* the slice of the inner loop of ApplyTemplate
EndPatterns == <<<<"#", "#">>, <<"#", "#", "#">>, <<"-", "-", "-">>>>

\* the range over a slice of patterns that stops at the first one found in
\* text: its position in the slice, 0 when none is found
firstFound(text, patterns) ==
  IF \E k \in 1..Len(patterns) : Contains(text, patterns[k])
    THEN CHOOSE k \in 1..Len(patterns) :
           /\ Contains(text, patterns[k])
           /\ \A j \in 1..(k - 1) : ~Contains(text, patterns[j])
    ELSE 0

\* the section loop of ApplyTemplate: the first pattern of the slice found
\* in result, the end of its section at the first end pattern of the slice
\* found after it, the summary put in between
fillSection(result, summary) ==
  LET p == firstFound(result, SectionPatterns) IN
    IF p = 0 THEN result
    ELSE LET pattern == SectionPatterns[p]
             idx == Index(result, pattern)
             rest == SubSeq(result, idx + Len(pattern), Len(result))
             e == firstFound(rest, EndPatterns)
             next == IF e = 0 THEN Len(rest) + 1 ELSE Index(rest, EndPatterns[e])
         IN SubSeq(result, 1, idx + Len(pattern) - 1) \o <<NL, NL>> \o summary \o <<NL>>
              \o SubSeq(rest, next, Len(rest))

\* github.ApplyTemplate
ApplyTemplate(tpl, ttl, summary) ==
  IF tpl = <<>> THEN summary
  ELSE fillSection(replacePlaceholders(tpl, ttl, summary)[12], summary)

\* ---------------------------------------------------------------- GetToken
\* strings.TrimSpace: the text without its leading and trailing white space
TrimSpace(s) ==
  LET keep == {i \in 1..Len(s) : s[i] \notin SpaceChars}
  IN IF keep = {} THEN <<>>
     ELSE SubSeq(s, CHOOSE i \in keep : \A j \in keep : i <= j,
                    CHOOSE i \in keep : \A j \in keep : i >= j)

NotAuthenticated == <<"n", "o", "t", " ", "a", "u", "t", "h", "e", "n", "t", "i", "c", "a", "t", "e", "d", ".", " ", "P", "l", "e", "a", "s", "e", " ", "r", "u", "n", " ", "'", "g", "h", " ", "a", "u", "t", "h", " ", "l", "o", "g", "i", "n", "'", " ", "o", "r", " ", "s", "e", "t", " ", "G", "I", "T", "H", "U", "B", "_", "T", "O", "K", "E", "N", " ", "e", "n", "v", "i", "r", "o", "n", "m", "e", "n", "t", " ", "v", "a", "r", "i", "a", "b", "l", "e">>

FailedToGetToken == <<"f", "a", "i", "l", "e", "d", " ", "t", "o", " ", "g", "e", "t", " ", "t", "o", "k", "e", "n", " ", "f", "r", "o", "m", " ", "g", "h", " ", "C", "L", "I", ":", " ">>

EmptyToken == <<"g", "h", " ", "C", "L", "I", " ", "r", "e", "t", "u", "r", "n", "e", "d", " ", "e", "m", "p", "t", "y", " ", "t", "o", "k", "e", "n">>

GhAuthStatus == <<"g", "h", " ", "a", "u", "t", "h", " ", "s", "t", "a", "t", "u", "s">>

GhAuthToken == <<"g", "h", " ", "a", "u", "t", "h", " ", "t", "o", "k", "e", "n">>

\* the lookup with GH_TOKEN read before GITHUB_TOKEN
GetTokenGhFirst(env) ==
  IF env.GH_TOKEN # <<>>
    THEN [token |-> env.GH_TOKEN, err |-> <<>>, commands |-> <<>>]
  ELSE IF env.GITHUB_TOKEN # <<>>
    THEN [token |-> env.GITHUB_TOKEN, err |-> <<>>, commands |-> <<>>]
  ELSE IF ~env.statusOK
    THEN [token |-> <<>>, err |-> NotAuthenticated, commands |-> <<GhAuthStatus>>]
  ELSE IF env.tokenErr # <<>>
    THEN [token |-> <<>>, err |-> FailedToGetToken \o env.tokenErr,
          commands |-> <<GhAuthStatus, GhAuthToken>>]
  ELSE IF TrimSpace(env.tokenOut) = <<>>
    THEN [token |-> <<>>, err |-> EmptyToken, commands |-> <<GhAuthStatus, GhAuthToken>>]
  ELSE [token |-> TrimSpace(env.tokenOut), err |-> <<>>,
        commands |-> <<GhAuthStatus, GhAuthToken>>]

\* github.GetToken in the environment env: the two variables as os.Getenv
\* gives them (empty when unset), whether "gh auth status" succeeds, and the
\* error (empty for nil) and the output of "gh auth token". The result is
\* the returned token, the message of the returned error (empty for nil)
\* and the commands run.
GetToken(env) ==
  IF env.GITHUB_TOKEN # <<>>
    THEN [token |-> env.GITHUB_TOKEN, err |-> <<>>, commands |-> <<>>]
  ELSE IF env.GH_TOKEN # <<>>
    THEN [token |-> env.GH_TOKEN, err |-> <<>>, commands |-> <<>>]
  ELSE IF ~env.statusOK
    THEN [token |-> <<>>, err |-> NotAuthenticated, commands |-> <<GhAuthStatus>>]
  ELSE IF env.tokenErr # <<>>
    THEN [token |-> <<>>, err |-> FailedToGetToken \o env.tokenErr,
          commands |-> <<GhAuthStatus, GhAuthToken>>]
  ELSE IF TrimSpace(env.tokenOut) = <<>>
    THEN [token |-> <<>>, err |-> EmptyToken, commands |-> <<GhAuthStatus, GhAuthToken>>]
  ELSE [token |-> TrimSpace(env.tokenOut), err |-> <<>>,
        commands |-> <<GhAuthStatus, GhAuthToken>>]

\* -------------------------------------------------------- ParseGitRemoteURL
\* strings.TrimPrefix
TrimPrefix(s, p) == IF HasPrefix(s, p) THEN SubSeq(s, Len(p) + 1, Len(s)) ELSE s

\* strings.TrimSuffix
TrimSuffix(s, p) == IF EndsWith(s, p) THEN SubSeq(s, 1, Len(s) - Len(p)) ELSE s

\* strings.Cut at the first occurrence of the one-character separator:
\* the text before it, the whole text when there is none
CutBefore(s, sep) == SubSeq(s, 1, Index(s \o <<sep>>, <<sep>>) - 1)

\* the value of a hexadecimal digit, -1 for another character
unhex(c) ==
  LET
    HexDigits == <<"0", "1", "2", "3", "4", "5", "6", "7", "8", "9", "a", "b", "c", "d", "e", "f">>
  IN
  LET l == IF c \in UpperLetters THEN LowerOf[c] ELSE c
      at == {i \in 1..16 : HexDigits[i] = l}
  IN IF at = {} THEN -1 ELSE (CHOOSE i \in at : TRUE) - 1

RECURSIVE unescape(_)
\* the second pass of url.unescape in path mode on a text with valid
\* escapes: each %XY becomes the byte of code XY
unescape(s) ==
  LET
    \* the printable ASCII characters, from code 32 (space) to code 126
    Ascii == <<" ", "!", "\"", "#", "$", "%", "&", "'", "(", ")", "*", "+", ",", "-", ".", "/", "0", "1", "2", "3", "4", "5", "6", "7", "8", "9", ":", ";", "<", "=", ">", "?", "@", "A", "B", "C", "D", "E", "F", "G", "H", "I", "J", "K", "L", "M", "N", "O", "P", "Q", "R", "S", "T", "U", "V", "W", "X", "Y", "Z", "[", "\\", "]", "^", "_", Backquote, "a", "b", "c", "d", "e", "f", "g", "h", "i", "j", "k", "l", "m", "n", "o", "p", "q", "r", "s", "t", "u", "v", "w", "x", "y", "z", "{", "|", "}", "~">>
    \* a byte that is not a printable ASCII character, kept as one character
    OtherByte == "U+FFFD"
  IN
  LET k == Index(s, <<"%">>) IN
    IF k = 0 THEN s
    ELSE LET code == 16 * unhex(s[k + 1]) + unhex(s[k + 2])
             byte == IF code >= 32 /\ code <= 126 THEN Ascii[code - 31] ELSE OtherByte
         IN SubSeq(s, 1, k - 1) \o <<byte>> \o unescape(SubSeq(s, k + 3, Len(s)))

\* url.Parse on a text that begins with http:// or https://, as far as
\* ParseGitRemoteURL uses it: whether it succeeds, and the Path of the
\* result. The fragment (after #) and the query (after ?) are cut off, the
\* authority runs to the first / after the scheme, the rest is the escaped
\* path. A control character, a character the authority may not hold, a port
\* that is not a number and a malformed % escape of the path are errors.
urlParse(u) ==
  LET
    \* the characters url.Parse accepts in the authority of a URL without
    \* escaping: those of a host name, and : and @ of a port and of user information
    AuthorityChars ==
      LowerLetters \cup UpperLetters \cup Digits
        \cup {"-", "_", ".", "~", "!", "$", "&", "'", "(", ")", "*", "+", ",", ";", "=",
              ":", "@", "[", "]"}
    \* the first pass of url.unescape in path mode: every % is followed by two
    \* hexadecimal digits
    validEscapes(s) ==
      \A i \in 1..Len(s) :
        s[i] = "%" => /\ i + 2 <= Len(s)
                      /\ unhex(s[i + 1]) >= 0
                      /\ unhex(s[i + 2]) >= 0
    \* url.validOptionalPort on the host of the authority (what follows its
    \* last @): what follows the last colon of the host, if any, is made of digits
    validOptionalPort(authority) ==
      LET ats == {i \in 1..Len(authority) : authority[i] = "@"}
          host == IF ats = {} THEN authority
                  ELSE SubSeq(authority, (CHOOSE i \in ats : \A j \in ats : i >= j) + 1,
                              Len(authority))
          colons == {i \in 1..Len(host) : host[i] = ":"}
      IN colons # {} =>
           LET last == CHOOSE i \in colons : \A j \in colons : i >= j
           IN \A k \in (last + 1)..Len(host) : host[k] \in Digits
  IN
  LET noFragment == CutBefore(u, "#")
      noQuery == CutBefore(noFragment, "?")
      rest == SubSeq(noQuery, Index(noQuery, <<"/", "/">>) + 2, Len(noQuery))
      authority == CutBefore(rest, "/")
      rawPath == SubSeq(rest, Len(authority) + 1, Len(rest))
      ok == /\ \A i \in 1..Len(u) : u[i] \notin {"\t", "\n", "\f", "\r"}
            /\ \A i \in 1..Len(authority) : authority[i] \in AuthorityChars
            /\ validOptionalPort(authority)
            /\ validEscapes(rawPath)
  IN [ok |-> ok, Path |-> IF ok THEN unescape(rawPath) ELSE <<>>]

SshPrefix == <<"g", "i", "t", "@", "g", "i", "t", "h", "u", "b", ".", "c", "o", "m", ":">>

InvalidSSH == <<"i", "n", "v", "a", "l", "i", "d", " ", "S", "S", "H", " ", "r", "e", "m", "o", "t", "e", " ", "U", "R", "L", " ", "f", "o", "r", "m", "a", "t">>

InvalidHTTPS == <<"i", "n", "v", "a", "l", "i", "d", " ", "H", "T", "T", "P", "S", " ", "r", "e", "m", "o", "t", "e", " ", "U", "R", "L", " ", "f", "o", "r", "m", "a", "t">>

FailedToParse == <<"f", "a", "i", "l", "e", "d", " ", "t", "o", " ", "p", "a", "r", "s", "e", " ", "r", "e", "m", "o", "t", "e", " ", "U", "R", "L", ":", " ">>

Unsupported == <<"u", "n", "s", "u", "p", "p", "o", "r", "t", "e", "d", " ", "r", "e", "m", "o", "t", "e", " ", "U", "R", "L", " ", "f", "o", "r", "m", "a", "t">>

\* the parse with any path of two segments or more accepted
ParseGitRemoteURLTwoOrMore(raw) ==
  LET u == TrimSpace(raw) IN
    IF HasPrefix(u, SshPrefix)
      THEN LET parts == Split(TrimSuffix(TrimPrefix(u, SshPrefix), <<".", "g", "i", "t">>), "/")
           IN IF Len(parts) < 2
                THEN [owner |-> <<>>, repo |-> <<>>, err |-> InvalidSSH]
                ELSE [owner |-> parts[1], repo |-> parts[2], err |-> <<>>]
    ELSE IF HasPrefix(u, <<"h", "t", "t", "p", "s", ":", "/", "/">>) \/ HasPrefix(u, <<"h", "t", "t", "p", ":", "/", "/">>)
      THEN LET parsed == urlParse(u) IN
             IF ~parsed.ok
               THEN [owner |-> <<>>, repo |-> <<>>, err |-> FailedToParse]
               ELSE LET parts == Split(TrimSuffix(TrimPrefix(parsed.Path, <<"/">>), <<".", "g", "i", "t">>), "/")
                    IN IF Len(parts) < 2
                         THEN [owner |-> <<>>, repo |-> <<>>, err |-> InvalidHTTPS]
                         ELSE [owner |-> parts[1], repo |-> parts[2], err |-> <<>>]
    ELSE [owner |-> <<>>, repo |-> <<>>, err |-> Unsupported]

\* github.ParseGitRemoteURL: the returned owner and repo, and the message of
\* the returned error (empty for nil; the text of the wrapped url.Parse
\* error is left out)
ParseGitRemoteURL(raw) ==
  LET u == TrimSpace(raw) IN
    IF HasPrefix(u, SshPrefix)
      THEN LET parts == Split(TrimSuffix(TrimPrefix(u, SshPrefix), <<".", "g", "i", "t">>), "/")
           IN IF Len(parts) # 2
                THEN [owner |-> <<>>, repo |-> <<>>, err |-> InvalidSSH]
                ELSE [owner |-> parts[1], repo |-> parts[2], err |-> <<>>]
    ELSE IF HasPrefix(u, <<"h", "t", "t", "p", "s", ":", "/", "/">>) \/ HasPrefix(u, <<"h", "t", "t", "p", ":", "/", "/">>)
      THEN LET parsed == urlParse(u) IN
             IF ~parsed.ok
               THEN [owner |-> <<>>, repo |-> <<>>, err |-> FailedToParse]
               ELSE LET parts == Split(TrimSuffix(TrimPrefix(parsed.Path, <<"/">>), <<".", "g", "i", "t">>), "/")
                    IN IF Len(parts) # 2
                         THEN [owner |-> <<>>, repo |-> <<>>, err |-> InvalidHTTPS]
                         ELSE [owner |-> parts[1], repo |-> parts[2], err |-> <<>>]
    ELSE [owner |-> <<>>, repo |-> <<>>, err |-> Unsupported]

\* ---------------------------------------------------------------- createPR
\* the locals and the output of a run of createPR before its first
\* statement: the flags --verbose and --draft, no branch, no repository, no
\* token, nothing printed, and no exit code yet (-1); no pull request
\* listed, no request sent to the GitHub API, and updated false
InitialCli(verbose, draft) ==
  [pc |-> "CurrentBranch", verbose |-> verbose, draft |-> draft,
   currentBranch |-> <<>>, defaultBranch |-> <<>>,
   owner |-> <<>>, repoName |-> <<>>, token |-> <<>>,
   stdout |-> <<>>, stderr |-> <<>>, exitCode |-> -1,
   pulls |-> <<>>, requests |-> <<>>, updated |-> FALSE]

\* rootCmd.Run on an error returned by createPR: the message on standard
\* error and os.Exit(1)
Aborted(c, msg) ==
  [c EXCEPT !.pc = "done", !.exitCode = 1, !.stderr = <<"E", "r", "r", "o", "r", ":", " ">> \o msg \o <<NL>>]

\* rootCmd.Run when createPR returns nil: the process ends with code 0
Succeeded(c) == [c EXCEPT !.pc = "done", !.exitCode = 0]

\* a fmt.Printf under "if verbose"
VerboseOut(c, line) == IF c.verbose THEN [c EXCEPT !.stdout = Append(@, line)] ELSE c

\* a fmt.Printf
Out(c, line) == [c EXCEPT !.stdout = Append(@, line)]

\* the record of a call made by createPR and whether it returned no error
Called(op, ok) == [op |-> op, ok |-> ok]

ErrMergeBase == <<"f", "a", "i", "l", "e", "d", " ", "t", "o", " ", "f", "i", "n", "d", " ", "m", "e", "r", "g", "e", " ", "b", "a", "s", "e", ":", " ", "n", "o", " ", "c", "o", "m", "m", "o", "n", " ", "a", "n", "c", "e", "s", "t", "o", "r", " ", "f", "o", "u", "n", "d">>

ErrAPI == <<"4", "0", "1", " ", "B", "a", "d", " ", "c", "r", "e", "d", "e", "n", "t", "i", "a", "l", "s">>

Branch_HEAD == <<"H", "E", "A", "D">>

Branch_main == <<"m", "a", "i", "n">>

\* -------------------------------------------------------------- inputs
\* the sequences without repetition of at most n elements of S: a changed
\* file list, as the version-control collaborator reports it
SeqsNoDup(S, n) ==
  {q \in UNION {[1..k -> S] : k \in 0..n} :
     \A i, j \in 1..Len(q) : q[i] = q[j] => i = j}

RECURSIVE Unlines(_)
\* a diff text: every line followed by a newline
Unlines(lines) ==
  IF Len(lines) = 0 THEN <<>>
  ELSE Head(lines) \o <<NL>> \o Unlines(Tail(lines))

F_main == <<"m", "a", "i", "n", ".", "g", "o">>
F_gomod == <<"g", "o", ".", "m", "o", "d">>
TypeFilePool ==
  LET
    F_a_test == <<"a", "_", "t", "e", "s", "t", ".", "g", "o">>
    F_readme == <<"R", "E", "A", "D", "M", "E", ".", "m", "d">>
    F_owners == <<".", "g", "i", "t", "h", "u", "b", "/", "O", "W", "N", "E", "R", "S">>
    F_test_readme == <<"T", "e", "s", "t", "/", "R", "E", "A", "D", "M", "E", ".", "m", "d">>
  IN
  {F_main, F_a_test, F_readme, F_gomod, F_owners, F_test_readme}

F_cmd_cpr == <<"c", "m", "d", "/", "c", "p", "r", "/", "m", "a", "i", "n", ".", "g", "o">>
F_cmd_main == <<"c", "m", "d", "/", "m", "a", "i", "n", ".", "g", "o">>
F_src_int_pkg == <<"s", "r", "c", "/", "i", "n", "t", "e", "r", "n", "a", "l", "/", "p", "k", "g", "/", "d", ".", "g", "o">>

D_func == <<"+", "f", "u", "n", "c", " ", "F", "o", "o", "(", ")", " ", "{", NL>>
TypeDiffs ==
  LET
    D_empty == <<>>
    D_panic == <<"+", "/", "/", " ", "P", "a", "n", "i", "c", NL>>
    D_bugfix_cache == <<"+", "b", "u", "g", NL, " ", "f", "i", "x", " ", "t", "h", "e", " ", "c", "a", "c", "h", "e", NL>>
    D_cache_rename == <<"+", "c", "a", "c", "h", "e", NL, "-", "R", "e", "n", "a", "m", "e", NL>>
    D_move_to == <<"-", "m", "o", "v", "e", " ", " ", "t", "o", NL>>
    D_func_fix == <<"+", "f", "u", "n", "c", " ", "F", "i", "x", "(", ")", " ", "{", NL>>
    D_plain == <<" ", "x", " ", ":", "=", " ", "1", NL>>
  IN
  {D_empty, D_panic, D_bugfix_cache, D_cache_rename, D_move_to, D_func,
   D_func_fix, D_plain}

T_placeholders == <<"[", "T", "i", "t", "l", "e", "]", NL, "{", "{", "s", "u", "m", "m", "a", "r", "y", "}", "}", NL>>
T_twice == <<"[", "S", "u", "m", "m", "a", "r", "y", "]", " ", "[", "S", "u", "m", "m", "a", "r", "y", "]">>
T_rule == <<"#", "#", " ", "S", "u", "m", "m", "a", "r", "y", NL, "o", "l", "d", NL, "-", "-", "-", NL, "k", "e", "e", "p", NL, "#", "#", " ", "N", "o", "t", "e", "s", NL>>
Title_custom == <<"[", "S", "u", "m", "m", "a", "r", "y", "]">>

\* bodies: one produced by GenerateSummary and one given with --body
Body_generated == summaryText(D_func, <<F_main>>)
Body_custom == <<"B", "o", "d", "y">>

\* values of the two environment variables: unset or empty, and two tokens
EnvValues == {<<>>, <<"t", "e", "s", "t", "-", "t", "o", "k", "e", "n">>, <<"g", "h", "-", "t", "e", "s", "t", "-", "t", "o", "k", "e", "n">>}

\* the environment of a run whose GetToken is not looked at
NoTokenEnv ==
  [GITHUB_TOKEN |-> <<>>, GH_TOKEN |-> <<>>, statusOK |-> FALSE,
   tokenErr |-> <<>>, tokenOut |-> <<>>]

\* outcomes of Repository.GetChangedFiles
ChangedFilesOutcomes ==
  {[err |-> ErrMergeBase, files |-> <<>>], [err |-> <<>>, files |-> <<F_main>>],
   [err |-> <<>>, files |-> <<F_cmd_cpr>>]}

\* ---------------------------------------------------------- state machine
\* the fields of the Analyzer after NewAnalyzer, and no call made yet
InitCalls == titleCalls = <<>> /\ summaryCalls = <<>>

\* no Analyzer in use
IdleAnalyzer == diff = <<>> /\ changedFiles = <<>> /\ InitCalls

\* ApplyTemplate not in use
IdleTemplate ==
  template = <<>> /\ title = <<>> /\ body = <<>> /\ applyCalls = <<>>

\* GetToken not in use
IdleToken == tokenEnv = NoTokenEnv /\ tokenCalls = <<>>

\* ParseGitRemoteURL not in use
IdleRemote == remoteURL = <<>> /\ parseCalls = <<>>

\* createPR not in use
IdleCLI ==
  LET
    \* no run of createPR
    IdleCli == [InitialCli(FALSE, FALSE) EXCEPT !.pc = "idle"]
  IN
  cli = IdleCli /\ events = <<>>

InitType ==
  /\ diff \in TypeDiffs
  /\ changedFiles \in SeqsNoDup(TypeFilePool, MaxTypeFiles)
  /\ InitCalls
  /\ IdleTemplate /\ IdleToken /\ IdleRemote /\ IdleCLI

InitScope ==
  LET
    ScopeFilePool ==
      LET
        F_auth_a == <<"i", "n", "t", "e", "r", "n", "a", "l", "/", "a", "u", "t", "h", "/", "a", ".", "g", "o">>
        F_auth_b == <<"i", "n", "t", "e", "r", "n", "a", "l", "/", "a", "u", "t", "h", "/", "b", ".", "g", "o">>
      IN
      {F_cmd_cpr, F_auth_a, F_auth_b, F_src_int_pkg, F_cmd_main, F_main}
    ScopeDiffs == {D_func}
  IN
  /\ diff \in ScopeDiffs
  /\ changedFiles \in SeqsNoDup(ScopeFilePool, MaxScopeFiles)
  /\ InitCalls
  /\ IdleTemplate /\ IdleToken /\ IdleRemote /\ IdleCLI

InitLines ==
  LET
    \* all sequences of at most n elements of S
    SeqsUpTo(S, n) == UNION {[1..k -> S] : k \in 0..n}
    LinePool ==
      LET
        L_func == <<"+", "f", "u", "n", "c", " ", "F", "o", "o", "(", ")", " ", "{">>
        L_type == <<"+", "t", "y", "p", "e", " ", "B", "a", "r", "_", "2", " ", "s", "t", "r", "u", "c", "t", " ", "{">>
        L_method == <<"+", "f", "u", "n", "c", " ", "(", "a", " ", "*", "A", ")", " ", "M", "(", ")", " ", "{">>
        L_indent == <<" ", "+", "f", "u", "n", "c", TAB, "Q", "(", ")">>
      IN
      {L_func, L_type, L_method, L_indent}
    LineFileLists == {<<F_main>>}
  IN
  /\ diff \in {Unlines(ls) : ls \in SeqsUpTo(LinePool, MaxLines)}
  /\ changedFiles \in LineFileLists
  /\ InitCalls
  /\ IdleTemplate /\ IdleToken /\ IdleRemote /\ IdleCLI

\* Analyzer.GenerateTitle: one call, with the map iteration order that
\* detectScope happens to get. The record of the call keeps the values of
\* its locals (commitType, scope, description), the map built by
\* detectScope, the slice returned by analyzePrimaryChanges inside
\* generateDescription, and the returned title.
GenerateTitle ==
  /\ Len(titleCalls) < MaxCalls
  /\ LET commitType == detectCommitType(diff, changedFiles)
         description == generateDescription(diff, changedFiles)
     IN \E scope \in detectScope(changedFiles) :
          titleCalls' = Append(titleCalls,
            [commitType |-> commitType, scope |-> scope,
             description |-> description,
             commonPrefixes |-> commonPrefixes(changedFiles),
             primaryChanges |-> analyzePrimaryChanges(diff),
             title |-> formatTitle(commitType, scope, description)])
  /\ UNCHANGED <<diff, changedFiles, summaryCalls, templateVars, tokenVars, remoteVars, cliVars>>

\* Analyzer.GenerateSummary: one call, its returned text recorded
GenerateSummary ==
  /\ Len(summaryCalls) < MaxCalls
  /\ summaryCalls' = Append(summaryCalls, summaryText(diff, changedFiles))
  /\ UNCHANGED <<diff, changedFiles, titleCalls, templateVars, tokenVars, remoteVars, cliVars>>

Next == GenerateTitle \/ GenerateSummary

SpecType == InitType /\ [][Next]_vars

SpecScope == InitScope /\ [][Next]_vars

SpecLines == InitLines /\ [][Next]_vars

\* the arguments of ApplyTemplate, and no call made yet
InitTemplate ==
  LET
    TemplatePool ==
      LET
        \* pull request templates, as GetPullRequestTemplate may return them
        T_empty == <<>>
        T_all_title == <<"{", "{", "t", "i", "t", "l", "e", "}", "}", "{", "{", "T", "I", "T", "L", "E", "}", "}", "[", "T", "I", "T", "L", "E", "]">>
        T_all_summary == <<"{", "{", "d", "e", "s", "c", "r", "i", "p", "t", "i", "o", "n", "}", "}", "{", "{", "D", "E", "S", "C", "R", "I", "P", "T", "I", "O", "N", "}", "}", "{", "{", "S", "U", "M", "M", "A", "R", "Y", "}", "}", "[", "D", "e", "s", "c", "r", "i", "p", "t", "i", "o", "n", "]", "[", "D", "E", "S", "C", "R", "I", "P", "T", "I", "O", "N", "]", "[", "S", "U", "M", "M", "A", "R", "Y", "]">>
        T_order == <<"#", "#", " ", "W", "h", "a", "t", NL, "w", NL, "#", "#", " ", "S", "u", "m", "m", "a", "r", "y", NL, "s", NL, "#", "#", "#", " ", "E", "n", "d", NL>>
        T_tail == <<"#", "#", "#", " ", "D", "e", "s", "c", "r", "i", "p", "t", "i", "o", "n", NL, "o", "l", "d", " ", "t", "e", "x", "t", NL>>
        T_plain == <<"T", "h", "a", "n", "k", "s", "!", NL>>
        T_changes == <<"#", "#", " ", "C", "h", "a", "n", "g", "e", "s", NL, "[", "S", "u", "m", "m", "a", "r", "y", "]", NL, "-", "-", "-", NL, "f", "o", "o", "t", NL>>
      IN
      {T_empty, T_placeholders, T_all_title, T_all_summary, T_twice, T_rule,
       T_order, T_tail, T_plain, T_changes}
    TitlePool ==
      LET
        \* titles: two in the format of GenerateTitle and one given with --title
        Title_feat == <<"f", "e", "a", "t", ":", " ", "a", "d", "d", " ", "F", "o", "o", " ", "f", "u", "n", "c", "t", "i", "o", "n">>
        Title_fix_cli == <<"f", "i", "x", "(", "c", "l", "i", ")", ":", " ", "x">>
      IN
      {Title_feat, Title_fix_cli, Title_custom}
    BodyPool == {Body_generated, Body_custom}
  IN
  /\ template \in TemplatePool
  /\ title \in TitlePool
  /\ body \in BodyPool
  /\ applyCalls = <<>>
  /\ IdleAnalyzer /\ IdleToken /\ IdleRemote /\ IdleCLI

\* one call of ApplyTemplate on the arguments: the record of the call keeps
\* the twelve successive values of result in the placeholder part (none for
\* the empty template) and the returned text
CallApplyTemplate ==
  /\ Len(applyCalls) < MaxCalls
  /\ applyCalls' = Append(applyCalls,
       [passes |-> IF template = <<>> THEN <<>>
                   ELSE replacePlaceholders(template, title, body),
        result |-> ApplyTemplate(template, title, body)])
  /\ UNCHANGED <<template, title, body, analyzerVars, tokenVars, remoteVars, cliVars>>

NextTemplate == CallApplyTemplate

SpecTemplate == InitTemplate /\ [][NextTemplate]_vars

\* the environment of GetToken, and no call made yet
InitToken ==
  LET
    TokenEnvs ==
      LET
        GhTokenOutcomes ==
          LET
            \* outcomes of "gh auth token": a failure, an empty output, white space
            \* only, and a token followed by a newline
            ExitStatus1 == <<"e", "x", "i", "t", " ", "s", "t", "a", "t", "u", "s", " ", "1">>
          IN
          {[tokenErr |-> ExitStatus1, tokenOut |-> <<>>],
           [tokenErr |-> <<>>, tokenOut |-> <<>>],
           [tokenErr |-> <<>>, tokenOut |-> <<" ", NL>>],
           [tokenErr |-> <<>>, tokenOut |-> <<"g", "h", "o", "_", "C", NL>>]}
      IN
      {[GITHUB_TOKEN |-> a, GH_TOKEN |-> b, statusOK |-> s,
        tokenErr |-> o.tokenErr, tokenOut |-> o.tokenOut] :
         a \in EnvValues, b \in EnvValues, s \in BOOLEAN, o \in GhTokenOutcomes}
  IN
  /\ tokenEnv \in TokenEnvs
  /\ tokenCalls = <<>>
  /\ IdleAnalyzer /\ IdleTemplate /\ IdleRemote /\ IdleCLI

\* one call of GetToken, its result recorded
CallGetToken ==
  /\ Len(tokenCalls) < MaxCalls
  /\ tokenCalls' = Append(tokenCalls, GetToken(tokenEnv))
  /\ UNCHANGED <<tokenEnv, analyzerVars, templateVars, remoteVars, cliVars>>

NextToken == CallGetToken

SpecToken == InitToken /\ [][NextToken]_vars

\* the argument of ParseGitRemoteURL, and no call made yet
InitRemote ==
  LET
    RemoteURLs ==
      LET
        \* remote URLs, as the origin remote may hold them: a beginning, a path and
        \* an ending
        UrlHeads ==
          {<<"g", "i", "t", "@", "g", "i", "t", "h", "u", "b", ".", "c", "o", "m", ":">>, <<"h", "t", "t", "p", "s", ":", "/", "/", "g", "i", "t", "h", "u", "b", ".", "c", "o", "m", "/">>, <<"h", "t", "t", "p", ":", "/", "/", "g", "i", "t", "l", "a", "b", ".", "c", "o", "m", "/">>, <<"g", "i", "t", "@", "g", "i", "t", "l", "a", "b", ".", "c", "o", "m", ":">>,
           <<"s", "s", "h", ":", "/", "/", "g", "i", "t", "@", "g", "i", "t", "h", "u", "b", ".", "c", "o", "m", "/">>, <<"h", "t", "t", "p", "s", ":", "/", "/", "g", "i", "t", "h", "u", "b", ".", "c", "o", "m", ":", "x", "1", "/">>, <<>>}
        UrlPaths ==
          {<<"o", "c", "t", "o", "c", "a", "t", "/", "H", "e", "l", "l", "o", "-", "W", "o", "r", "l", "d">>, <<"o", "c", "t", "o", "c", "a", "t">>, <<"a", "/", "b", "/", "c">>, <<"/", "r">>, <<"o", "/">>, <<>>, <<"o", "/", "r", "?", "x", "=", "1", "#", "f">>,
           <<"a", "%", "2", "F", "b", "/", "r">>, <<"o", "/", "%", "z", "z">>, <<"o", "/", "r", "%", "2", "0", "x">>}
        UrlTails == {<<>>, <<".", "g", "i", "t">>, <<".", "g", "i", "t", NL>>, <<"/">>}
      IN
      {h \o p \o t : h \in UrlHeads, p \in UrlPaths, t \in UrlTails}
  IN
  /\ remoteURL \in RemoteURLs
  /\ parseCalls = <<>>
  /\ IdleAnalyzer /\ IdleTemplate /\ IdleToken /\ IdleCLI

\* one call of ParseGitRemoteURL, its result recorded
CallParseGitRemoteURL ==
  /\ Len(parseCalls) < MaxCalls
  /\ parseCalls' = Append(parseCalls, ParseGitRemoteURL(remoteURL))
  /\ UNCHANGED <<remoteURL, analyzerVars, templateVars, tokenVars, cliVars>>

NextRemote == CallParseGitRemoteURL

SpecRemote == InitRemote /\ [][NextRemote]_vars

\* a run of createPR about to start: the flags --title and --body (empty
\* when not given), --verbose and --draft, and the environment of GetToken
InitCLI ==
  LET
    \* the environments of GetToken in a run of createPR: GITHUB_TOKEN set, and
    \* no variable set with gh not logged in
    CliTokenEnvs ==
      {[NoTokenEnv EXCEPT !.GITHUB_TOKEN = <<"t", "e", "s", "t", "-", "t", "o", "k", "e", "n">>], NoTokenEnv}
  IN
  /\ title \in {<<>>, Title_custom}
  /\ body \in {<<>>, Body_custom}
  /\ template = <<>> /\ applyCalls = <<>>
  /\ IdleAnalyzer
  /\ tokenEnv \in CliTokenEnvs /\ tokenCalls = <<>>
  /\ IdleRemote
  /\ cli \in {InitialCli(v, d) : v \in BOOLEAN, d \in BOOLEAN}
  /\ events = <<>>

\* createPR: repo.CurrentBranch() and the detached HEAD check
createPRCurrentBranch ==
  LET
    \* outcomes of Repository.CurrentBranch: an error, the detached HEAD, the
    \* default branch and another branch
    CurrentBranchOutcomes ==
      LET
        ErrFailedToGetHEAD == <<"f", "a", "i", "l", "e", "d", " ", "t", "o", " ", "g", "e", "t", " ", "H", "E", "A", "D", ":", " ", "r", "e", "f", "e", "r", "e", "n", "c", "e", " ", "n", "o", "t", " ", "f", "o", "u", "n", "d">>
        Branch_feature == <<"f", "e", "a", "t", "u", "r", "e">>
      IN
      {[err |-> ErrFailedToGetHEAD, branch |-> <<>>]}
        \cup {[err |-> <<>>, branch |-> b] : b \in {Branch_HEAD, Branch_main, Branch_feature}}
  IN
  /\ cli.pc = "CurrentBranch"
  /\ \E r \in CurrentBranchOutcomes :
       /\ events' = Append(events, Called("CurrentBranch", r.err = <<>>))
       /\ cli' = IF r.err # <<>>
                   THEN Aborted(cli, <<"f", "a", "i", "l", "e", "d", " ", "t", "o", " ", "g", "e", "t", " ", "c", "u", "r", "r", "e", "n", "t", " ", "b", "r", "a", "n", "c", "h", ":", " ">> \o r.err)
                 ELSE IF r.branch = Branch_HEAD
                   THEN Aborted([cli EXCEPT !.currentBranch = r.branch],
                                <<"i", "n", " ", "d", "e", "t", "a", "c", "h", "e", "d", " ", "H", "E", "A", "D", " ", "s", "t", "a", "t", "e", ",", " ", "p", "l", "e", "a", "s", "e", " ", "c", "h", "e", "c", "k", "o", "u", "t", " ", "a", " ", "b", "r", "a", "n", "c", "h">>)
                 ELSE [cli EXCEPT !.currentBranch = r.branch, !.pc = "DefaultBranch"]
  /\ UNCHANGED <<analyzerVars, templateVars, tokenVars, remoteVars>>

\* createPR: repo.DefaultBranch() and the comparison with the current branch
createPRDefaultBranch ==
  LET
    \* outcomes of Repository.DefaultBranch
    DefaultBranchOutcomes ==
      LET
        ErrDefaultBranch == <<"f", "a", "i", "l", "e", "d", " ", "t", "o", " ", "d", "e", "t", "e", "r", "m", "i", "n", "e", " ", "d", "e", "f", "a", "u", "l", "t", " ", "b", "r", "a", "n", "c", "h">>
      IN
      {[err |-> ErrDefaultBranch, branch |-> <<>>], [err |-> <<>>, branch |-> Branch_main]}
  IN
  /\ cli.pc = "DefaultBranch"
  /\ \E r \in DefaultBranchOutcomes :
       /\ events' = Append(events, Called("DefaultBranch", r.err = <<>>))
       /\ cli' = IF r.err # <<>>
                   THEN Aborted(cli, <<"f", "a", "i", "l", "e", "d", " ", "t", "o", " ", "g", "e", "t", " ", "d", "e", "f", "a", "u", "l", "t", " ", "b", "r", "a", "n", "c", "h", ":", " ">> \o r.err)
                 ELSE IF cli.currentBranch = r.branch
                   THEN Aborted([cli EXCEPT !.defaultBranch = r.branch],
                                <<"c", "a", "n", "n", "o", "t", " ", "c", "r", "e", "a", "t", "e", " ", "P", "R", " ", "f", "r", "o", "m", " ", "d", "e", "f", "a", "u", "l", "t", " ", "b", "r", "a", "n", "c", "h", " ", "'">> \o r.branch \o <<"'">>)
                 ELSE VerboseOut(VerboseOut(
                        [cli EXCEPT !.defaultBranch = r.branch, !.pc = "DiffAgainstDefault"],
                        "Current branch"), "Default branch")
  /\ UNCHANGED <<analyzerVars, templateVars, tokenVars, remoteVars>>

\* createPR: repo.DiffAgainstDefault() and the empty diff check
createPRDiff ==
  LET
    \* outcomes of Repository.DiffAgainstDefault: an error, no change, a diff
    DiffOutcomes ==
      {[err |-> ErrMergeBase, text |-> <<>>], [err |-> <<>>, text |-> <<>>],
       [err |-> <<>>, text |-> D_func]}
  IN
  /\ cli.pc = "DiffAgainstDefault"
  /\ \E r \in DiffOutcomes :
       /\ events' = Append(events, Called("DiffAgainstDefault", r.err = <<>>))
       /\ diff' = r.text
       /\ cli' = IF r.err # <<>>
                   THEN Aborted(cli, <<"f", "a", "i", "l", "e", "d", " ", "t", "o", " ", "g", "e", "t", " ", "d", "i", "f", "f", ":", " ">> \o r.err)
                 ELSE IF r.text = <<>>
                   THEN Aborted(VerboseOut(cli, "No changes detected"),
                                <<"n", "o", " ", "c", "h", "a", "n", "g", "e", "s", " ", "d", "e", "t", "e", "c", "t", "e", "d", " ", "b", "e", "t", "w", "e", "e", "n", " ">> \o cli.currentBranch
                                  \o <<" ", "a", "n", "d", " ">> \o cli.defaultBranch)
                 ELSE [cli EXCEPT !.pc = "GetChangedFiles"]
  /\ UNCHANGED <<changedFiles, titleCalls, summaryCalls, templateVars, tokenVars, remoteVars>>

\* the step with a failure of GetChangedFiles passed over
createPRChangedFilesIgnoreError ==
  /\ cli.pc = "GetChangedFiles"
  /\ \E r \in ChangedFilesOutcomes :
       /\ events' = Append(events, Called("GetChangedFiles", r.err = <<>>))
       /\ changedFiles' = r.files
       /\ cli' = [cli EXCEPT !.pc = "Analyze"]
  /\ UNCHANGED <<diff, titleCalls, summaryCalls, templateVars, tokenVars, remoteVars>>

\* createPR: repo.GetChangedFiles()
createPRChangedFiles ==
  /\ cli.pc = "GetChangedFiles"
  /\ \E r \in ChangedFilesOutcomes :
       /\ events' = Append(events, Called("GetChangedFiles", r.err = <<>>))
       /\ changedFiles' = r.files
       /\ cli' = IF r.err # <<>>
                   THEN Aborted(cli, <<"f", "a", "i", "l", "e", "d", " ", "t", "o", " ", "g", "e", "t", " ", "c", "h", "a", "n", "g", "e", "d", " ", "f", "i", "l", "e", "s", ":", " ">> \o r.err)
                   ELSE [cli EXCEPT !.pc = "Analyze"]
  /\ UNCHANGED <<diff, titleCalls, summaryCalls, templateVars, tokenVars, remoteVars>>

\* createPR: commit.NewAnalyzer, then GenerateTitle when no title was given
\* and GenerateSummary when no body was given
createPRAnalyze ==
  /\ cli.pc = "Analyze"
  /\ \E scope \in detectScope(changedFiles) :
       title' = IF title = <<>>
                  THEN formatTitle(detectCommitType(diff, changedFiles), scope,
                                   generateDescription(diff, changedFiles))
                  ELSE title
  /\ body' = IF body = <<>> THEN summaryText(diff, changedFiles) ELSE body
  /\ events' = events
       \o (IF title = <<>> THEN <<Called("GenerateTitle", TRUE)>> ELSE <<>>)
       \o (IF body = <<>> THEN <<Called("GenerateSummary", TRUE)>> ELSE <<>>)
  /\ cli' = LET c1 == IF title = <<>> THEN VerboseOut(cli, "Generated title") ELSE cli
                c2 == IF body = <<>> THEN VerboseOut(c1, "Generated body") ELSE c1
            IN [c2 EXCEPT !.pc = "GetRemoteURL"]
  /\ UNCHANGED <<analyzerVars, template, applyCalls, tokenVars, remoteVars>>

\* createPR: repo.GetRemoteURL() and github.ParseGitRemoteURL
createPRRemoteURL ==
  LET
    \* outcomes of Repository.GetRemoteURL: no origin remote, a URL of github.com
    \* and a URL that ParseGitRemoteURL refuses
    RemoteURLOutcomes ==
      LET
        ErrRemote == <<"f", "a", "i", "l", "e", "d", " ", "t", "o", " ", "g", "e", "t", " ", "r", "e", "m", "o", "t", "e", ":", " ", "r", "e", "m", "o", "t", "e", " ", "n", "o", "t", " ", "f", "o", "u", "n", "d">>
        Url_ssh == <<"g", "i", "t", "@", "g", "i", "t", "h", "u", "b", ".", "c", "o", "m", ":", "o", "c", "t", "o", "c", "a", "t", "/", "H", "e", "l", "l", "o", "-", "W", "o", "r", "l", "d", ".", "g", "i", "t">>
        Url_invalid == <<"n", "o", "t", "-", "a", "-", "v", "a", "l", "i", "d", "-", "u", "r", "l">>
      IN
      {[err |-> ErrRemote, url |-> <<>>], [err |-> <<>>, url |-> Url_ssh],
       [err |-> <<>>, url |-> Url_invalid]}
  IN
  /\ cli.pc = "GetRemoteURL"
  /\ \E r \in RemoteURLOutcomes :
       LET parsed == ParseGitRemoteURL(r.url) IN
         /\ remoteURL' = r.url
         /\ events' = IF r.err # <<>>
                        THEN Append(events, Called("GetRemoteURL", FALSE))
                        ELSE events \o <<Called("GetRemoteURL", TRUE),
                                         Called("ParseGitRemoteURL", parsed.err = <<>>)>>
         /\ cli' = IF r.err # <<>>
                     THEN Aborted(cli, <<"f", "a", "i", "l", "e", "d", " ", "t", "o", " ", "g", "e", "t", " ", "r", "e", "m", "o", "t", "e", " ", "U", "R", "L", ":", " ">> \o r.err)
                   ELSE IF parsed.err # <<>>
                     THEN Aborted(cli, <<"f", "a", "i", "l", "e", "d", " ", "t", "o", " ", "p", "a", "r", "s", "e", " ", "r", "e", "m", "o", "t", "e", " ", "U", "R", "L", ":", " ">> \o parsed.err)
                   ELSE VerboseOut([cli EXCEPT !.owner = parsed.owner,
                                                 !.repoName = parsed.repo,
                                                 !.pc = "PushCurrentBranch"],
                                     "Repository")
  /\ UNCHANGED <<analyzerVars, templateVars, tokenVars, parseCalls>>

\* the error of the push returned by createPR
createPRPushFatal ==
  /\ cli.pc = "PushCurrentBranch"
  /\ \E ok \in BOOLEAN :
       /\ events' = Append(events, Called("PushCurrentBranch", ok))
       /\ cli' = IF ok THEN [cli EXCEPT !.pc = "GetToken"]
                 ELSE Aborted(cli, <<"f", "a", "i", "l", "e", "d", " ", "t", "o", " ", "p", "u", "s", "h", " ", "b", "r", "a", "n", "c", "h">>)
  /\ UNCHANGED <<analyzerVars, templateVars, tokenVars, remoteVars>>

\* createPR: repo.PushCurrentBranch(), whose error is only printed
createPRPush ==
  /\ cli.pc = "PushCurrentBranch"
  /\ \E ok \in BOOLEAN :
       /\ events' = Append(events, Called("PushCurrentBranch", ok))
       /\ cli' = [(IF ok THEN cli ELSE VerboseOut(cli, "Note")) EXCEPT !.pc = "GetToken"]
  /\ UNCHANGED <<analyzerVars, templateVars, tokenVars, remoteVars>>

\* createPR: github.GetToken(), its error returned as it is
createPRToken ==
  /\ cli.pc = "GetToken"
  /\ LET r == GetToken(tokenEnv) IN
       /\ events' = Append(events, Called("GetToken", r.err = <<>>))
       /\ cli' = IF r.err # <<>> THEN Aborted(cli, r.err)
                 ELSE [cli EXCEPT !.token = r.token, !.pc = "GetPullRequestTemplate"]
  /\ UNCHANGED <<analyzerVars, templateVars, tokenVars, remoteVars>>

\* createPR: client.GetPullRequestTemplate, which swallows the errors of
\* Repositories.GetContents and returns "" and no error when no lookup gave
\* a file, and github.ApplyTemplate when the template is not empty
createPRTemplate ==
  LET
    \* outcomes of the lookups of GetPullRequestTemplate: every GetContents
    \* call fails (no such file, or an API error), a file that is empty, and
    \* a file with a text
    TemplateLookups ==
      {[ok |-> FALSE, text |-> <<>>], [ok |-> TRUE, text |-> <<>>],
       [ok |-> TRUE, text |-> T_placeholders]}
  IN
  /\ cli.pc = "GetPullRequestTemplate"
  /\ \E l \in TemplateLookups :
     LET t == l.text IN
       /\ template' = t
       /\ body' = IF t # <<>> THEN ApplyTemplate(t, title, body) ELSE body
       /\ events' = events
            \o <<Called("Repositories.GetContents", l.ok), Called("GetPullRequestTemplate", TRUE)>>
            \o (IF t # <<>> THEN <<Called("ApplyTemplate", TRUE)>> ELSE <<>>)
       /\ cli' = [(IF t # <<>> THEN VerboseOut(cli, "Found PR template") ELSE cli)
                    EXCEPT !.pc = "List"]
  /\ UNCHANGED <<analyzerVars, title, applyCalls, tokenVars, remoteVars>>

ErrCreateOrUpdate == <<"f", "a", "i", "l", "e", "d", " ", "t", "o", " ", "c", "r", "e", "a", "t", "e", "/", "u", "p", "d", "a", "t", "e", " ", "p", "u", "l", "l", " ", "r", "e", "q", "u", "e", "s", "t", ":", " ">>

\* the step with a failed list call tried again
createPRListRetry ==
  LET
    \* outcomes of PullRequests.List: an error, no open pull request of the
    \* branch, one, and two, given by their numbers
    ListOutcomes ==
      {[err |-> ErrAPI, pulls |-> <<>>]}
        \cup {[err |-> <<>>, pulls |-> p] : p \in {<<>>, <<7>>, <<9, 7>>}}
    \* the request of GetPullRequestForBranch
    listed ==
      [cli EXCEPT !.requests = Append(@,
         [op |-> "List", owner |-> cli.owner, repo |-> cli.repoName,
          head |-> cli.owner \o <<":">> \o cli.currentBranch, state |-> "open"])]
  IN
  /\ cli.pc = "List"
  /\ \E r \in ListOutcomes :
       /\ events' = Append(events, Called("PullRequests.List", r.err = <<>>))
       /\ cli' = IF r.err # <<>>
                   THEN (IF Len(events) < 12 THEN cli
                         ELSE Aborted(listed, ErrCreateOrUpdate \o <<"f", "a", "i", "l", "e", "d", " ", "t", "o", " ", "l", "i", "s", "t", " ", "p", "u", "l", "l", " ", "r", "e", "q", "u", "e", "s", "t", "s", ":", " ">> \o ErrAPI))
                   ELSE [listed EXCEPT !.pulls = r.pulls,
                                       !.pc = IF Len(r.pulls) > 0 THEN "Edit" ELSE "Create"]
  /\ UNCHANGED <<analyzerVars, templateVars, tokenVars, remoteVars>>

\* CreateOrUpdatePullRequest: GetPullRequestForBranch lists the open pull
\* requests of the branch; the list fails, is empty, or has a pull request
createPRList ==
  LET
    \* outcomes of PullRequests.List: an error, no open pull request of the
    \* branch, one, and two, given by their numbers
    ListOutcomes ==
      {[err |-> ErrAPI, pulls |-> <<>>]}
        \cup {[err |-> <<>>, pulls |-> p] : p \in {<<>>, <<7>>, <<9, 7>>}}
    \* the request of GetPullRequestForBranch
    listed ==
      [cli EXCEPT !.requests = Append(@,
         [op |-> "List", owner |-> cli.owner, repo |-> cli.repoName,
          head |-> cli.owner \o <<":">> \o cli.currentBranch, state |-> "open"])]
  IN
  /\ cli.pc = "List"
  /\ \E r \in ListOutcomes :
       /\ events' = Append(events, Called("PullRequests.List", r.err = <<>>))
       /\ cli' = IF r.err # <<>>
                   THEN Aborted(listed, ErrCreateOrUpdate \o <<"f", "a", "i", "l", "e", "d", " ", "t", "o", " ", "l", "i", "s", "t", " ", "p", "u", "l", "l", " ", "r", "e", "q", "u", "e", "s", "t", "s", ":", " ">> \o ErrAPI)
                   ELSE [listed EXCEPT !.pulls = r.pulls,
                                       !.pc = IF Len(r.pulls) > 0 THEN "Edit" ELSE "Create"]
  /\ UNCHANGED <<analyzerVars, templateVars, tokenVars, remoteVars>>

\* the update followed by a create call
createPREditThenCreate ==
  /\ cli.pc = "Edit"
  /\ \E ok \in BOOLEAN :
       LET sent == [cli EXCEPT !.requests = Append(@,
                      [op |-> "Edit", owner |-> cli.owner, repo |-> cli.repoName,
                       number |-> cli.pulls[1], title |-> title, body |-> body])
                    \o <<[op |-> "Create", owner |-> cli.owner, repo |-> cli.repoName,
                          title |-> title, head |-> cli.currentBranch,
                          base |-> cli.defaultBranch, body |-> body, draft |-> cli.draft]>>]
       IN
       /\ events' = Append(events, Called("PullRequests.Edit", ok))
       /\ cli' = IF ok THEN Succeeded(Out([sent EXCEPT !.updated = TRUE], "Pull request updated"))
                 ELSE Aborted(sent, ErrCreateOrUpdate \o <<"f", "a", "i", "l", "e", "d", " ", "t", "o", " ", "u", "p", "d", "a", "t", "e", " ", "p", "u", "l", "l", " ", "r", "e", "q", "u", "e", "s", "t", ":", " ">> \o ErrAPI)
  /\ UNCHANGED <<analyzerVars, templateVars, tokenVars, remoteVars>>

\* CreateOrUpdatePullRequest: UpdatePullRequest on the existing pull request
createPREdit ==
  /\ cli.pc = "Edit"
  /\ \E ok \in BOOLEAN :
       LET sent == [cli EXCEPT !.requests = Append(@,
                      [op |-> "Edit", owner |-> cli.owner, repo |-> cli.repoName,
                       number |-> cli.pulls[1], title |-> title, body |-> body])]
       IN
       /\ events' = Append(events, Called("PullRequests.Edit", ok))
       /\ cli' = IF ok THEN Succeeded(Out([sent EXCEPT !.updated = TRUE], "Pull request updated"))
                 ELSE Aborted(sent, ErrCreateOrUpdate \o <<"f", "a", "i", "l", "e", "d", " ", "t", "o", " ", "u", "p", "d", "a", "t", "e", " ", "p", "u", "l", "l", " ", "r", "e", "q", "u", "e", "s", "t", ":", " ">> \o ErrAPI)
  /\ UNCHANGED <<analyzerVars, templateVars, tokenVars, remoteVars>>

\* CreateOrUpdatePullRequest: PullRequests.Create when there is none
createPRCreate ==
  /\ cli.pc = "Create"
  /\ \E ok \in BOOLEAN :
       LET sent == [cli EXCEPT !.requests = Append(@,
                      [op |-> "Create", owner |-> cli.owner, repo |-> cli.repoName,
                       title |-> title, head |-> cli.currentBranch,
                       base |-> cli.defaultBranch, body |-> body, draft |-> cli.draft])]
       IN
       /\ events' = Append(events, Called("PullRequests.Create", ok))
       /\ cli' = IF ok THEN Succeeded(Out(sent, "Pull request created"))
                 ELSE Aborted(sent, ErrCreateOrUpdate \o <<"f", "a", "i", "l", "e", "d", " ", "t", "o", " ", "c", "r", "e", "a", "t", "e", " ", "p", "u", "l", "l", " ", "r", "e", "q", "u", "e", "s", "t", ":", " ">> \o ErrAPI)
  /\ UNCHANGED <<analyzerVars, templateVars, tokenVars, remoteVars>>

\* createPR, statement by statement
createPR ==
  \/ createPRCurrentBranch
  \/ createPRDefaultBranch
  \/ createPRDiff
  \/ createPRChangedFiles
  \/ createPRAnalyze
  \/ createPRRemoteURL
  \/ createPRPush
  \/ createPRToken
  \/ createPRTemplate
  \/ createPRList
  \/ createPREdit
  \/ createPRCreate

SpecCLI == InitCLI /\ [][createPR]_vars

\* ================================================================ claims
\* the calls of GenerateTitle made so far
TitleCallIds == 1..Len(titleCalls)

\* every changed file matches the test-file pattern, and there is one
AllTestFiles(files) ==
  Len(files) > 0 /\ \A i \in 1..Len(files) : testFilePattern(files[i])

\* the guards of the type resolver in their fixed order, as
\* <<guard holds, type>> pairs
GuardChain(d, files) ==
  << <<AllTestFiles(files), TypeTest>>,
     <<\E i \in 1..Len(files) : docFilePattern(files[i]), TypeDocs>>,
     <<\E i \in 1..Len(files) : buildFilePattern(files[i]), TypeBuild>>,
     <<\E i \in 1..Len(files) : ciFilePattern(files[i]), TypeCI>>,
     <<bugPatterns(ToLower(d)), TypeFix>>,
     <<perfPatterns(ToLower(d)), TypePerf>>,
     <<refactorPatterns(ToLower(d)), TypeRefactor>> >>

\* the type of the first guard of the chain that holds, feat when none does
FirstGuardType(d, files) ==
  LET chain == GuardChain(d, files)
      holding == {k \in 1..Len(chain) : chain[k][1]}
  IN IF holding = {} THEN TypeFeat
     ELSE chain[CHOOSE k \in holding : \A j \in holding : k <= j][2]

\* some changed file matches the doc, build or ci path pattern
HasPathSignal(files) ==
  \E i \in 1..Len(files) :
    docFilePattern(files[i]) \/ buildFilePattern(files[i]) \/ ciFilePattern(files[i])

\* C1: the commit type of every call is the type of the first guard that
\* matches in the order test, docs, build, ci, fix, perf, refactor, and feat
\* when none matches; a changed file matching the doc, build or ci pattern
\* keeps the type out of the keyword-decided types.
C1_FirstGuardWins ==
  \A c \in TitleCallIds :
    /\ titleCalls[c].commitType = FirstGuardType(diff, changedFiles)
    /\ HasPathSignal(changedFiles) =>
         titleCalls[c].commitType \in {TypeTest, TypeDocs, TypeBuild, TypeCI}

\* a call on a diff with a bug keyword whose type a doc file decided
C1_Witness ==
  \E c \in TitleCallIds :
    /\ titleCalls[c].commitType = TypeDocs
    /\ bugPatterns(ToLower(diff))
    /\ ~AllTestFiles(changedFiles)

\* C2: the type is test exactly when the changed-file list is non-empty and
\* every changed file matches the test-file pattern.
C2_TestGuard ==
  \A c \in TitleCallIds :
    (titleCalls[c].commitType = TypeTest) <=> AllTestFiles(changedFiles)

\* a call on two test files, resolved to test
C2_Witness ==
  \E c \in TitleCallIds :
    /\ titleCalls[c].commitType = TypeTest
    /\ Len(changedFiles) = 2

\* files with f added at position pos
InsertAt(files, f, pos) ==
  SubSeq(files, 1, pos - 1) \o <<f>> \o SubSeq(files, pos, Len(files))

\* the changed-file lists obtained by adding one non-test file of the pool
WithOneNonTestFile(files) ==
  {InsertAt(files, f, pos) :
     f \in {g \in TypeFilePool : ~testFilePattern(g)}, pos \in 1..(Len(files) + 1)}

\* the type the path guards docs, build, ci give, fix when none matches
PathGuardOrFix(files) ==
  IF \E i \in 1..Len(files) : docFilePattern(files[i]) THEN TypeDocs
  ELSE IF \E i \in 1..Len(files) : buildFilePattern(files[i]) THEN TypeBuild
  ELSE IF \E i \in 1..Len(files) : ciFilePattern(files[i]) THEN TypeCI
  ELSE TypeFix

\* C3 as stated: with only test files and a bug keyword in the diff the type
\* is test, and after adding one non-test file the type is decided by the
\* bug-keyword guard or a later guard (fix, perf, refactor or feat).
C3_Original ==
  \A c \in TitleCallIds :
    (AllTestFiles(changedFiles) /\ bugPatterns(ToLower(diff))) =>
      /\ titleCalls[c].commitType = TypeTest
      /\ \A fs \in WithOneNonTestFile(changedFiles) :
           detectCommitType(diff, fs) \in {TypeFix, TypePerf, TypeRefactor, TypeFeat}

\* C3 amended: with only test files and a bug keyword in the diff the type is
\* test, and after adding one non-test file the type is no longer test and is
\* decided by the first matching guard among docs, build, ci and bug keyword:
\* docs, build or ci when a changed file matches that path pattern, fix
\* otherwise.
C3_AddedFileLeavesTestGuard ==
  \A c \in TitleCallIds :
    (AllTestFiles(changedFiles) /\ bugPatterns(ToLower(diff))) =>
      /\ titleCalls[c].commitType = TypeTest
      /\ \A fs \in WithOneNonTestFile(changedFiles) :
           /\ detectCommitType(diff, fs) # TypeTest
           /\ detectCommitType(diff, fs) = PathGuardOrFix(fs)

\* a call on test files only and a bug keyword, resolved to test, where one
\* added file gives fix and another gives docs
C3_Witness ==
  \E c \in TitleCallIds :
    /\ AllTestFiles(changedFiles)
    /\ bugPatterns(ToLower(diff))
    /\ titleCalls[c].commitType = TypeTest
    /\ \E fs \in WithOneNonTestFile(changedFiles) : detectCommitType(diff, fs) = TypeFix
    /\ \E fs \in WithOneNonTestFile(changedFiles) : detectCommitType(diff, fs) = TypeDocs

\* C4: two calls on the same analyzer return the same commit type, the same
\* title (scope included) and the same summary.
C4_Idempotent ==
  /\ \A c1, c2 \in TitleCallIds :
       /\ titleCalls[c1].commitType = titleCalls[c2].commitType
       /\ titleCalls[c1].title = titleCalls[c2].title
  /\ \A s1, s2 \in 1..Len(summaryCalls) : summaryCalls[s1] = summaryCalls[s2]

\* the directory segments of a path: its "/"-separated segments but the last
DirSegments(file) ==
  LET parts == Split(file, "/") IN SubSeq(parts, 1, Len(parts) - 1)

\* the scope candidates of one file, in the order they are tallied: the
\* directory segment after the first marker segment, then "cli" for a path
\* that begins with "cmd/"
ScopeCandidates(file) ==
  LET dirs == DirSegments(file)
      marked == {i \in 1..Len(dirs) : dirs[i] \in ScopeMarkers}
      first == CHOOSE i \in marked : \A j \in marked : i <= j
  IN (IF marked # {} /\ first < Len(dirs) THEN <<dirs[first + 1]>> ELSE <<>>)
       \o (IF Len(dirs) >= 1 /\ dirs[1] = <<"c", "m", "d">> THEN <<CliToken>> ELSE <<>>)

RECURSIVE AllCandidates(_)
\* the candidates of all changed files, in input order
AllCandidates(files) ==
  IF Len(files) = 0 THEN <<>>
  ELSE ScopeCandidates(Head(files)) \o AllCandidates(Tail(files))

\* the tally of token t
Count(cs, t) == Cardinality({i \in 1..Len(cs) : cs[i] = t})

\* the token with the highest tally whose first occurrence is earliest
FirstSeenMax(files) ==
  LET cs == AllCandidates(files) IN
    IF Len(cs) = 0 THEN <<>>
    ELSE cs[CHOOSE i \in 1..Len(cs) :
              /\ \A j \in 1..Len(cs) : Count(cs, cs[j]) <= Count(cs, cs[i])
              /\ \A j \in 1..(i - 1) : Count(cs, cs[j]) < Count(cs, cs[i])]

\* C5: the scope is the token with the highest tally and, among tokens that
\* share the highest tally, the one that occurs first in input file order.
C5_FirstSeenOnTie ==
  \A c \in TitleCallIds : titleCalls[c].scope = FirstSeenMax(changedFiles)

\* C6: per changed file the directory segment after the first internal, pkg
\* or cmd segment is tallied once (nothing when the marker is the last
\* directory segment) and a path beginning with "cmd/" tallies "cli" once;
\* the scope is empty when the list is empty or no file yields a candidate.
C6_ScopeCandidates ==
  \A c \in TitleCallIds :
    LET cs == AllCandidates(changedFiles)
        m == titleCalls[c].commonPrefixes
    IN /\ DOMAIN m = {cs[i] : i \in 1..Len(cs)}
       /\ \A t \in DOMAIN m : m[t] = Count(cs, t)
       /\ (Len(changedFiles) = 0 \/ Len(cs) = 0) => titleCalls[c].scope = <<>>

\* a call on a path whose first marker, not its first segment, is followed
\* by a second marker, and on a path whose marker is the last directory
\* segment
C6_Witness ==
  \E c \in TitleCallIds :
    /\ changedFiles = <<F_src_int_pkg, F_cmd_main>>
    /\ titleCalls[c].commonPrefixes = (<<"p", "k", "g">> :> 1) @@ (CliToken :> 1)

\* C7: every call yields a non-empty commit type, one of the CommitType
\* values, and a non-empty title, for any input, the empty diff and the
\* empty file list included.
C7_Totality ==
  \A c \in TitleCallIds :
    /\ Len(titleCalls[c].commitType) > 0
    /\ titleCalls[c].commitType \in CommitType
    /\ Len(titleCalls[c].title) > 0

\* a call on the empty diff and the empty file list that returned a title
C7_Witness ==
  \E c \in TitleCallIds :
    /\ diff = <<>>
    /\ changedFiles = <<>>
    /\ Len(titleCalls[c].title) > 0

\* C8: the title is "type(scope): description" when the scope the call got
\* from detectScope is non-empty and "type: description" when it is empty,
\* type being the result of detectCommitType on the same input.
C8_TitleFormat ==
  LET type == detectCommitType(diff, changedFiles) IN
    \A c \in TitleCallIds :
      LET call == titleCalls[c] IN
        IF Len(call.scope) > 0
          THEN call.title = type \o <<"(">> \o call.scope \o <<")">> \o <<":", " ">> \o call.description
          ELSE call.title = type \o <<":", " ">> \o call.description

\* a call that returned a scoped title
C8_Witness ==
  \E c \in TitleCallIds :
    /\ Len(titleCalls[c].scope) > 0
    /\ titleCalls[c].title[Len(titleCalls[c].commitType) + 1] = "("

\* the line is keyword, at least one white-space character, then an
\* identifier character at position w
DeclAt(line, keyword, w) ==
  /\ HasPrefix(line, keyword)
  /\ w > Len(keyword) + 1
  /\ w <= Len(line)
  /\ \A k \in (Len(keyword) + 1)..(w - 1) : line[k] \in SpaceChars
  /\ line[w] \in WordChars

\* the line begins with "+func <identifier>" or "+type <identifier>"
IsDeclLine(line) ==
  \E w \in 1..Len(line) : DeclAt(line, FuncKeyword, w) \/ DeclAt(line, TypeKeyword, w)

\* the phrase of a declaration line: "add <identifier> function" or
\* "add <identifier> type", the identifier being the longest run of
\* identifier characters after the white space
PhraseOf(line) ==
  LET keyword == IF HasPrefix(line, FuncKeyword) THEN FuncKeyword ELSE TypeKeyword
      w == CHOOSE k \in 1..Len(line) : DeclAt(line, keyword, k)
      e == CHOOSE k \in w..Len(line) :
             /\ \A j \in w..k : line[j] \in WordChars
             /\ (k = Len(line) \/ line[k + 1] \notin WordChars)
  IN AddWord \o SubSeq(line, w, e)
       \o (IF keyword = FuncKeyword THEN FunctionWord ELSE TypeWord)

\* the positions of the declaration lines among lines
DeclLineIds(lines) == {i \in 1..Len(lines) : IsDeclLine(lines[i])}

\* the k-th declaration line, ids being the positions of the declaration lines
NthDeclLine(lines, ids, k) ==
  lines[CHOOSE i \in ids : Cardinality({j \in ids : j < i}) = k - 1]

\* the fixed default phrase of each type
DefaultPhrase ==
  (TypeFeat :> <<"a", "d", "d", " ", "n", "e", "w", " ", "f", "u", "n", "c", "t", "i", "o", "n", "a", "l", "i", "t", "y">>)
    @@ (TypeFix :> <<"r", "e", "s", "o", "l", "v", "e", " ", "i", "s", "s", "u", "e", "s">>)
    @@ (TypeDocs :> <<"u", "p", "d", "a", "t", "e", " ", "d", "o", "c", "u", "m", "e", "n", "t", "a", "t", "i", "o", "n">>)
    @@ (TypeTest :> <<"a", "d", "d", " ", "t", "e", "s", "t", "s">>)
    @@ (TypeBuild :> <<"u", "p", "d", "a", "t", "e", " ", "b", "u", "i", "l", "d", " ", "c", "o", "n", "f", "i", "g", "u", "r", "a", "t", "i", "o", "n">>)
    @@ (TypeCI :> <<"u", "p", "d", "a", "t", "e", " ", "C", "I", " ", "c", "o", "n", "f", "i", "g", "u", "r", "a", "t", "i", "o", "n">>)
    @@ (TypeRefactor :> <<"i", "m", "p", "r", "o", "v", "e", " ", "c", "o", "d", "e", " ", "s", "t", "r", "u", "c", "t", "u", "r", "e">>)
    @@ (TypePerf :> <<"i", "m", "p", "r", "o", "v", "e", " ", "p", "e", "r", "f", "o", "r", "m", "a", "n", "c", "e">>)

\* C9: the description is the phrase of the first declaration line of the
\* diff when there is one, whatever the commit type, and the default phrase
\* of the resolved type otherwise.
C9_Description ==
  LET lines == Split(diff, NL)
      ids == DeclLineIds(lines)
  IN \A c \in TitleCallIds :
       IF ids # {}
         THEN titleCalls[c].description = PhraseOf(NthDeclLine(lines, ids, 1))
         ELSE /\ titleCalls[c].commitType \in DOMAIN DefaultPhrase
              /\ titleCalls[c].description = DefaultPhrase[titleCalls[c].commitType]

\* a call resolved to fix whose description is a structural-addition phrase
C9_Witness ==
  \E c \in TitleCallIds :
    /\ titleCalls[c].commitType = TypeFix
    /\ titleCalls[c].description = <<"a", "d", "d", " ", "F", "i", "x", " ", "f", "u", "n", "c", "t", "i", "o", "n">>

\* C10: analyzePrimaryChanges returns the phrases of the declaration lines
\* of the diff in diff order, the first 3 only when there are more.
C10_PrimaryChanges ==
  LET lines == Split(diff, NL)
      ids == DeclLineIds(lines)
  IN \A c \in TitleCallIds :
       LET changes == titleCalls[c].primaryChanges IN
         /\ Len(changes) <= 3
         /\ Len(changes) = (IF Cardinality(ids) > 3 THEN 3 ELSE Cardinality(ids))
         /\ \A k \in 1..Len(changes) : changes[k] = PhraseOf(NthDeclLine(lines, ids, k))

\* a call on a diff with more than 3 declaration lines, of both kinds, that
\* kept 3 phrases
C10_Witness ==
  \E c \in TitleCallIds :
    /\ Cardinality(DeclLineIds(Split(diff, NL))) > 3
    /\ Len(titleCalls[c].primaryChanges) = 3
    /\ titleCalls[c].primaryChanges[1] = <<"a", "d", "d", " ", "B", "a", "r", "_", "2", " ", "t", "y", "p", "e">>
    /\ titleCalls[c].primaryChanges[3] = <<"a", "d", "d", " ", "F", "o", "o", " ", "f", "u", "n", "c", "t", "i", "o", "n">>

\* the lines of a text, cut at every newline, by the positions of the newlines
TextLines(text) ==
  LET nl == {i \in 1..Len(text) : text[i] = NL}
      n == Cardinality(nl)
      pos(k) == CHOOSE i \in nl : Cardinality({j \in nl : j < i}) = k - 1
  IN [k \in 1..(n + 1) |->
        SubSeq(text, IF k = 1 THEN 1 ELSE pos(k - 1) + 1,
                     IF k = n + 1 THEN Len(text) ELSE pos(k) - 1)]

\* the calls of GenerateSummary made so far
SummaryCallIds == 1..Len(summaryCalls)

\* the positions where p occurs in s
Occurrences(s, p) == {i \in 1..(Len(s) - Len(p) + 1) : HasAt(s, p, i)}

\* the line of the summary that lists one file: a bullet with the path as
\* inline code
FileBulletLine(file) == <<"-", " ", Backquote>> \o file \o <<Backquote>>

\* C11: the summary starts with the "## Summary" heading; it has a
\* "## Changed Files" heading exactly when the changed-file list is not
\* empty, and then the heading comes once, after the "## Summary" section,
\* followed by a blank line and one inline-code bullet line per changed
\* file, in the order of the list, and nothing else.
C11_ChangedFilesSection ==
  \A s \in SummaryCallIds :
    LET text == summaryCalls[s]
        at == Occurrences(text, <<"#", "#", " ", "C", "h", "a", "n", "g", "e", "d", " ", "F", "i", "l", "e", "s">>)
    IN /\ HasPrefix(text, <<"#", "#", " ", "S", "u", "m", "m", "a", "r", "y", NL>>)
       /\ (at # {}) <=> (Len(changedFiles) > 0)
       /\ at # {} =>
            LET i == CHOOSE k \in at : TRUE
                rest == TextLines(SubSeq(text, i + Len(<<"#", "#", " ", "C", "h", "a", "n", "g", "e", "d", " ", "F", "i", "l", "e", "s">>), Len(text)))
            IN /\ Cardinality(at) = 1
               /\ i > Len(<<"#", "#", " ", "S", "u", "m", "m", "a", "r", "y", NL>>)
               /\ text[i - 1] = NL
               /\ Len(rest) = Len(changedFiles) + 3
               /\ rest[1] = <<>> /\ rest[2] = <<>> /\ rest[Len(rest)] = <<>>
               /\ \A k \in 1..Len(changedFiles) : rest[k + 2] = FileBulletLine(changedFiles[k])

\* a summary of two changed files, go.mod listed before main.go
C11_Witness ==
  \E s \in SummaryCallIds :
    /\ changedFiles = <<F_gomod, F_main>>
    /\ Contains(summaryCalls[s], <<NL, "#", "#", " ", "C", "h", "a", "n", "g", "e", "d", " ", "F", "i", "l", "e", "s", NL, NL, "-", " ", Backquote, "g", "o", ".", "m", "o", "d", Backquote, NL, "-", " ", Backquote, "m", "a", "i", "n", ".", "g", "o", Backquote, NL>>)

\* the bullet lines of the "## Summary" section of a summary text: the lines
\* after the heading and its blank line, up to the blank line that ends the
\* section or to the end of the text
SummarySectionLines(text) ==
  LET lines == TextLines(text)
      stop == CHOOSE k \in 3..Len(lines) :
                lines[k] = <<>> /\ \A j \in 3..(k - 1) : lines[j] # <<>>
  IN SubSeq(lines, 3, stop - 1)

\* the changes the summary is to list for a diff and a file list
ExpectedChanges(d, files) ==
  LET lines == Split(d, NL)
      ids == DeclLineIds(lines)
      n == IF Cardinality(ids) > 3 THEN 3 ELSE Cardinality(ids)
      phrases == [k \in 1..n |-> PhraseOf(NthDeclLine(lines, ids, k))]
      deps == IF \E i \in 1..Len(files) : Contains(files[i], <<"g", "o", ".", "m", "o", "d">>)
                THEN <<<<"U", "p", "d", "a", "t", "e", " ", "d", "e", "p", "e", "n", "d", "e", "n", "c", "i", "e", "s">>>> ELSE <<>>
      tests == IF \E i \in 1..Len(files) : Contains(ToLower(files[i]), <<"t", "e", "s", "t">>)
                 THEN <<<<"A", "d", "d", " ", "o", "r", " ", "u", "p", "d", "a", "t", "e", " ", "t", "e", "s", "t", "s">>>> ELSE <<>>
      found == phrases \o deps \o tests
  IN IF found = <<>> THEN <<<<"V", "a", "r", "i", "o", "u", "s", " ", "i", "m", "p", "r", "o", "v", "e", "m", "e", "n", "t", "s", " ", "a", "n", "d", " ", "u", "p", "d", "a", "t", "e", "s">>>> ELSE found

\* C12: the "## Summary" section lists, one bullet each and in this order,
\* the structural-addition phrases (at most 3), "Update dependencies" exactly
\* when a changed file matches go.mod, "Add or update tests" exactly when a
\* changed path contains "test" in any letter case, and the single bullet
\* "Various improvements and updates" exactly when none of these is
\* produced; it has at least one bullet.
C12_SummaryBullets ==
  LET expected == ExpectedChanges(diff, changedFiles) IN
    \A s \in SummaryCallIds :
      LET got == SummarySectionLines(summaryCalls[s]) IN
        /\ Len(got) >= 1
        /\ Len(got) = Len(expected)
        /\ \A k \in 1..Len(got) : got[k] = <<"-", " ">> \o expected[k]

\* a summary with a structural phrase, the dependency bullet and the test
\* bullet, in this order
C12_Witness ==
  \E s \in SummaryCallIds :
    HasPrefix(summaryCalls[s],
      <<"#", "#", " ", "S", "u", "m", "m", "a", "r", "y", NL, NL, "-", " ", "a", "d", "d", " ", "F", "o", "o", " ", "f", "u", "n", "c", "t", "i", "o", "n", NL, "-", " ", "U", "p", "d", "a", "t", "e", " ", "d", "e", "p", "e", "n", "d", "e", "n", "c", "i", "e", "s", NL, "-", " ", "A", "d", "d", " ", "o", "r", " ", "u", "p", "d", "a", "t", "e", " ", "t", "e", "s", "t", "s", NL, NL, "#", "#", " ", "C", "h", "a", "n", "g", "e", "d", " ", "F", "i", "l", "e", "s">>)

\* a summary whose only bullet is the fallback
C12_FallbackWitness ==
  \E s \in SummaryCallIds :
    /\ changedFiles = <<F_main>>
    /\ HasPrefix(summaryCalls[s], <<"#", "#", " ", "S", "u", "m", "m", "a", "r", "y", NL, NL, "-", " ", "V", "a", "r", "i", "o", "u", "s", " ", "i", "m", "p", "r", "o", "v", "e", "m", "e", "n", "t", "s", " ", "a", "n", "d", " ", "u", "p", "d", "a", "t", "e", "s", NL, NL, "#", "#", " ", "C", "h", "a", "n", "g", "e", "d", " ", "F", "i", "l", "e", "s">>)

\* the commit types that detectCommitType returns for some diff and some
\* changed-file list of the input sets, the input of the Analyzer included
DetectedTypes ==
  {detectCommitType(d, fs) :
     d \in TypeDiffs \cup {diff},
     fs \in SeqsNoDup(TypeFilePool, MaxTypeFiles) \cup {changedFiles}}

\* C13: each of the ten commit types, style and chore included, is detected:
\* for each of them there is a diff and a changed-file list for which
\* detectCommitType returns it.
C13_AllTypesDetected == \A t \in CommitType : t \in DetectedTypes

\* the types of the calls made are among the eight that a return statement
\* of detectCommitType names: style and chore are returned for no input
C13_OnlyEightTypes ==
  \A c \in TitleCallIds :
    titleCalls[c].commitType \in
      {TypeTest, TypeDocs, TypeBuild, TypeCI, TypeFix, TypePerf, TypeRefactor, TypeFeat}

\* the calls of ApplyTemplate made so far
ApplyCallIds == 1..Len(applyCalls)

\* the twelve placeholders: four for the title, eight for the summary
PlaceholderList ==
  <<<<"{", "{", "t", "i", "t", "l", "e", "}", "}">>, <<"{", "{", "T", "I", "T", "L", "E", "}", "}">>, <<"[", "T", "i", "t", "l", "e", "]">>, <<"[", "T", "I", "T", "L", "E", "]">>,
    <<"{", "{", "d", "e", "s", "c", "r", "i", "p", "t", "i", "o", "n", "}", "}">>, <<"{", "{", "D", "E", "S", "C", "R", "I", "P", "T", "I", "O", "N", "}", "}">>, <<"{", "{", "s", "u", "m", "m", "a", "r", "y", "}", "}">>, <<"{", "{", "S", "U", "M", "M", "A", "R", "Y", "}", "}">>,
    <<"[", "D", "e", "s", "c", "r", "i", "p", "t", "i", "o", "n", "]">>, <<"[", "D", "E", "S", "C", "R", "I", "P", "T", "I", "O", "N", "]">>, <<"[", "S", "u", "m", "m", "a", "r", "y", "]">>, <<"[", "S", "U", "M", "M", "A", "R", "Y", "]">>>>

\* s with every occurrence of the placeholder p replaced by v: the pieces of
\* s between the occurrences, joined by v (the occurrences of a placeholder
\* cannot overlap)
SubstituteAll(s, p, v) ==
  LET occ == Occurrences(s, p)
      n == Cardinality(occ)
      nth(k) == CHOOSE i \in occ : Cardinality({j \in occ : j < i}) = k - 1
      from(k) == IF k = 1 THEN 1 ELSE nth(k - 1) + Len(p)
      to(k) == IF k = n + 1 THEN Len(s) ELSE nth(k) - 1
  IN Join([k \in 1..(n + 1) |-> SubSeq(s, from(k), to(k))], v)

\* C14: for a non-empty template ApplyTemplate rewrites the text placeholder
\* by placeholder, every occurrence of each title placeholder replaced by the
\* title and every occurrence of each description/summary placeholder
\* replaced by the summary, so that after a placeholder is treated no
\* occurrence of it that the text had is left; for the empty template the
\* result is the summary unchanged.
C14_Placeholders ==
  \A c \in ApplyCallIds :
    IF template = <<>>
      THEN applyCalls[c].result = body
      ELSE LET passes == applyCalls[c].passes IN
             /\ Len(passes) = 12
             /\ \A k \in 1..12 :
                  passes[k] = SubstituteAll(IF k = 1 THEN template ELSE passes[k - 1],
                                            PlaceholderList[k],
                                            IF k <= 4 THEN title ELSE body)

\* a call on a template with two occurrences of a summary placeholder, both
\* replaced by the summary
C14_Witness ==
  \E c \in ApplyCallIds :
    /\ template = T_twice
    /\ body = Body_custom
    /\ applyCalls[c].result = <<"B", "o", "d", "y", " ", "B", "o", "d", "y">>

\* a call on the empty template
C14_EmptyWitness ==
  \E c \in ApplyCallIds :
    template = <<>> /\ body = Body_generated /\ applyCalls[c].result = Body_generated

\* the smallest element of a non-empty set of numbers
Least(S) == CHOOSE i \in S : \A j \in S : i <= j

\* the eight section headings
SectionHeadings ==
  <<<<"#", "#", " ", "S", "u", "m", "m", "a", "r", "y">>, <<"#", "#", " ", "D", "e", "s", "c", "r", "i", "p", "t", "i", "o", "n">>, <<"#", "#", " ", "W", "h", "a", "t">>, <<"#", "#", " ", "C", "h", "a", "n", "g", "e", "s">>,
    <<"#", "#", "#", " ", "S", "u", "m", "m", "a", "r", "y">>, <<"#", "#", "#", " ", "D", "e", "s", "c", "r", "i", "p", "t", "i", "o", "n">>, <<"#", "#", "#", " ", "W", "h", "a", "t">>, <<"#", "#", "#", " ", "C", "h", "a", "n", "g", "e", "s">>>>

\* the positions from position e of text on where one of the three end
\* markers begins
MarkersFrom(text, e) ==
  {j \in e..Len(text) : HasAt(text, <<"#", "#">>, j) \/ HasAt(text, <<"#", "#", "#">>, j) \/ HasAt(text, <<"-", "-", "-">>, j)}

\* C15: the summary is inserted after one section heading, the first of the
\* eight headings that the text (with its placeholders replaced) contains;
\* what it replaces runs from the end of that heading to the marker ##, ###
\* or ---  that comes first in the text after the heading, or to the end of
\* the text when no marker follows; the text from that marker on is kept.
C15_SectionFill ==
  \A c \in ApplyCallIds :
    template # <<>> =>
      LET text == applyCalls[c].passes[12]
          found == {k \in 1..8 : Contains(text, SectionHeadings[k])}
      IN IF found = {} THEN applyCalls[c].result = text
         ELSE LET heading == SectionHeadings[Least(found)]
                  e == Least(Occurrences(text, heading)) + Len(heading)
                  marks == MarkersFrom(text, e)
                  kept == IF marks = {} THEN <<>> ELSE SubSeq(text, Least(marks), Len(text))
              IN applyCalls[c].result
                   = SubSeq(text, 1, e - 1) \o <<NL, NL>> \o body \o <<NL>> \o kept

\* the section of a template ends at a horizontal rule that a later heading
\* follows, and the call drops the rule and the text after it
C15_RuleDropped ==
  \E c \in ApplyCallIds :
    /\ template = T_rule
    /\ body = Body_custom
    /\ applyCalls[c].result = <<"#", "#", " ", "S", "u", "m", "m", "a", "r", "y", NL, NL, "B", "o", "d", "y", NL, "#", "#", " ", "N", "o", "t", "e", "s", NL>>

\* the calls of GetToken made so far
TokenCallIds == 1..Len(tokenCalls)

\* t is text without its surrounding white space: t is not empty, does not
\* begin or end with white space, and text is t between two runs of white
\* space
IsTrimmed(t, text) ==
  /\ Len(t) > 0
  /\ t[1] \notin SpaceChars /\ t[Len(t)] \notin SpaceChars
  /\ \E i \in 1..Len(text) :
       /\ HasAt(text, t, i)
       /\ \A k \in 1..Len(text) : (k < i \/ k >= i + Len(t)) => text[k] \in SpaceChars

\* C16: a non-empty GITHUB_TOKEN is returned whatever GH_TOKEN holds;
\* otherwise a non-empty GH_TOKEN is returned; the gh helper commands are run
\* exactly when both variables are empty, and a token obtained then is the
\* output of the helper without its surrounding white space; a call that
\* returns no error never returns the empty token.
C16_TokenOrder ==
  \A c \in TokenCallIds :
    LET call == tokenCalls[c] IN
      /\ tokenEnv.GITHUB_TOKEN # <<>> =>
           call.token = tokenEnv.GITHUB_TOKEN /\ call.err = <<>>
      /\ (tokenEnv.GITHUB_TOKEN = <<>> /\ tokenEnv.GH_TOKEN # <<>>) =>
           call.token = tokenEnv.GH_TOKEN /\ call.err = <<>>
      /\ (call.commands # <<>>) <=> (tokenEnv.GITHUB_TOKEN = <<>> /\ tokenEnv.GH_TOKEN = <<>>)
      /\ (call.commands # <<>> /\ call.err = <<>>) => IsTrimmed(call.token, tokenEnv.tokenOut)
      /\ call.err = <<>> => call.token # <<>>

\* a call with both variables set that returned GITHUB_TOKEN and ran no
\* helper command
C16_Witness ==
  \E c \in TokenCallIds :
    /\ tokenEnv.GITHUB_TOKEN = <<"t", "e", "s", "t", "-", "t", "o", "k", "e", "n">>
    /\ tokenEnv.GH_TOKEN = <<"g", "h", "-", "t", "e", "s", "t", "-", "t", "o", "k", "e", "n">>
    /\ tokenCalls[c] = [token |-> <<"t", "e", "s", "t", "-", "t", "o", "k", "e", "n">>, err |-> <<>>, commands |-> <<>>]

\* a call with both variables empty that returned the trimmed helper output
C16_HelperWitness ==
  \E c \in TokenCallIds :
    /\ tokenEnv.GITHUB_TOKEN = <<>> /\ tokenEnv.GH_TOKEN = <<>>
    /\ tokenCalls[c].token = <<"g", "h", "o", "_", "C">>
    /\ Len(tokenCalls[c].commands) = 2

\* C17: when neither GITHUB_TOKEN nor GH_TOKEN is set and the gh helper
\* supplies no token, GetToken returns an error whose message contains
\* "GitHub token not found".
C17_TokenNotFound ==
  \A c \in TokenCallIds :
    (/\ tokenEnv.GITHUB_TOKEN = <<>>
     /\ tokenEnv.GH_TOKEN = <<>>
     /\ tokenCalls[c].token = <<>>)
      => /\ tokenCalls[c].err # <<>>
         /\ Contains(tokenCalls[c].err, <<"G", "i", "t", "H", "u", "b", " ", "t", "o", "k", "e", "n", " ", "n", "o", "t", " ", "f", "o", "u", "n", "d">>)

\* a call without any token reports the missing gh login instead
C17_NotAuthenticatedMessage ==
  \E c \in TokenCallIds :
    /\ tokenEnv.GITHUB_TOKEN = <<>> /\ tokenEnv.GH_TOKEN = <<>>
    /\ tokenCalls[c].err = NotAuthenticated

\* the calls of ParseGitRemoteURL made so far
ParseCallIds == 1..Len(parseCalls)

\* the owner/repo path that a remote URL names, <<"none">> standing for a
\* text that is neither an SSH URL of github.com nor a well-formed http or
\* https URL: what follows git@github.com: for the first, the path of the URL
\* (its query and fragment left out, its escapes decoded) without its
\* leading slash for the second
NoPath == <<"none">>

RepoPathOf(u) ==
  IF HasPrefix(u, <<"g", "i", "t", "@", "g", "i", "t", "h", "u", "b", ".", "c", "o", "m", ":">>) THEN SubSeq(u, Len(<<"g", "i", "t", "@", "g", "i", "t", "h", "u", "b", ".", "c", "o", "m", ":">>) + 1, Len(u))
  ELSE IF (HasPrefix(u, <<"h", "t", "t", "p", "s", ":", "/", "/">>) \/ HasPrefix(u, <<"h", "t", "t", "p", ":", "/", "/">>)) /\ urlParse(u).ok
    THEN LET path == urlParse(u).Path
         IN IF Len(path) > 0 /\ path[1] = "/" THEN Tail(path) ELSE path
  ELSE NoPath

\* C18: for an SSH URL git@github.com:owner/repo and for an http or https
\* URL of any host with the path /owner/repo, with or without a trailing
\* .git, ParseGitRemoteURL returns owner and repo (the .git left out) and no
\* error; for every other input (another beginning, or a path that is not
\* made of exactly two segments) it returns an error, and the empty owner
\* and repo. Surrounding white space of the input does not count.
C18_ParseRemote ==
  LET path == RepoPathOf(TrimSpace(remoteURL))
      p == IF EndsWith(path, <<".", "g", "i", "t">>) THEN SubSeq(path, 1, Len(path) - 4) ELSE path
      slashes == {i \in 1..Len(p) : p[i] = "/"}
  IN \A c \in ParseCallIds :
       IF path # NoPath /\ Cardinality(slashes) = 1
         THEN LET i == CHOOSE k \in slashes : TRUE
              IN parseCalls[c] = [owner |-> SubSeq(p, 1, i - 1),
                                  repo |-> SubSeq(p, i + 1, Len(p)),
                                  err |-> <<>>]
         ELSE /\ parseCalls[c].err # <<>>
              /\ parseCalls[c].owner = <<>>
              /\ parseCalls[c].repo = <<>>

\* a call on an http URL of another host with a trailing .git and newline
C18_Witness ==
  \E c \in ParseCallIds :
    /\ remoteURL = <<"h", "t", "t", "p", ":", "/", "/", "g", "i", "t", "l", "a", "b", ".", "c", "o", "m", "/", "o", "c", "t", "o", "c", "a", "t", "/", "H", "e", "l", "l", "o", "-", "W", "o", "r", "l", "d", ".", "g", "i", "t", NL>>
    /\ parseCalls[c] = [owner |-> <<"o", "c", "t", "o", "c", "a", "t">>, repo |-> <<"H", "e", "l", "l", "o", "-", "W", "o", "r", "l", "d">>, err |-> <<>>]

\* a call on an SSH URL with three segments, refused
C18_ErrorWitness ==
  \E c \in ParseCallIds :
    /\ remoteURL = <<"g", "i", "t", "@", "g", "i", "t", "h", "u", "b", ".", "c", "o", "m", ":", "a", "/", "b", "/", "c", ".", "g", "i", "t">>
    /\ parseCalls[c] = [owner |-> <<>>, repo |-> <<>>, err |-> InvalidSSH]

\* the positions in the record of the calls of createPR
EventIds == 1..Len(events)

\* the analyzer has been invoked before call j
AnalyzedBefore(j) ==
  \E i \in 1..(j - 1) : events[i].op \in {"GenerateTitle", "GenerateSummary"}

\* the operations of the version-control collaborator whose failure createPR
\* returns as an error
VersionControlOps ==
  {"CurrentBranch", "DefaultBranch", "DiffAgainstDefault", "GetChangedFiles", "GetRemoteURL"}

\* C19 as stated: every version-control failure (detached HEAD, no merge
\* base, no origin remote) is reported before the analyzer is invoked: in no
\* run is GenerateTitle or GenerateSummary called and the failure of a
\* version-control operation reported as a fatal error afterwards.
C19_Original ==
  \A j \in EventIds :
    (events[j].op \in VersionControlOps /\ ~events[j].ok /\ cli.exitCode = 1)
      => ~AnalyzedBefore(j)

\* C19, amended: a failure of the current-branch, default-branch, diff (no
\* merge base) or changed-files lookup, and the detached HEAD, end the run
\* with a fatal error before the analyzer is invoked; the failure of
\* GetRemoteURL (no origin remote) ends the run with a fatal error once the
\* title and the body are set, GenerateTitle and GenerateSummary having been
\* called for the one not given, and before any push, token lookup or
\* GitHub call.
C19_FailuresAroundAnalyzer ==
  /\ \A j \in EventIds :
       (events[j].op \in VersionControlOps \ {"GetRemoteURL"} /\ ~events[j].ok)
         => /\ cli.exitCode = 1
            /\ \A i \in EventIds : events[i].op \notin {"GenerateTitle", "GenerateSummary"}
  /\ cli.currentBranch = Branch_HEAD
       => /\ cli.exitCode = 1
          /\ \A i \in EventIds : events[i].op \notin {"GenerateTitle", "GenerateSummary"}
  /\ \A j \in EventIds :
       (events[j].op = "GetRemoteURL" /\ ~events[j].ok)
         => /\ cli.exitCode = 1
            /\ j = Len(events)
            /\ title # <<>> /\ body # <<>>
            /\ \A i \in EventIds :
                 events[i].op \in VersionControlOps \cup {"GenerateTitle", "GenerateSummary"}

\* a run that called GenerateTitle and GenerateSummary and then ended on the
\* failure of GetRemoteURL
C19_Witness ==
  /\ cli.exitCode = 1
  /\ Len(events) = 7
  /\ events[5] = Called("GenerateTitle", TRUE)
  /\ events[6] = Called("GenerateSummary", TRUE)
  /\ events[7] = Called("GetRemoteURL", FALSE)
  /\ cli.stderr = <<"E", "r", "r", "o", "r", ":", " ", "f", "a", "i", "l", "e", "d", " ", "t", "o", " ", "g", "e", "t", " ", "r", "e", "m", "o", "t", "e", " ", "U", "R", "L", ":", " ", "f", "a", "i", "l", "e", "d", " ", "t", "o", " ", "g", "e", "t", " ", "r", "e", "m", "o", "t", "e", ":", " ", "r", "e", "m", "o", "t", "e", " ", "n", "o", "t", " ", "f", "o", "u", "n", "d", NL>>

\* the calls whose error makes createPR return an error
FatalOps ==
  {"CurrentBranch", "DefaultBranch", "DiffAgainstDefault", "GetChangedFiles",
   "GetRemoteURL", "ParseGitRemoteURL", "GetToken",
   "PullRequests.List", "PullRequests.Create", "PullRequests.Edit"}

\* the last call made is op
LastCallIs(op) == Len(events) > 0 /\ events[Len(events)].op = op

\* the run ended as a fatal error: exit code 1, and a message on standard error
FatalExit ==
  /\ cli.pc = "done"
  /\ cli.exitCode = 1
  /\ HasPrefix(cli.stderr, <<"E", "r", "r", "o", "r", ":", " ">>)
  /\ Len(cli.stderr) > Len(<<"E", "r", "r", "o", "r", ":", " ", NL>>)
  /\ cli.stderr[Len(cli.stderr)] = NL

\* no pull request has been created or updated
NoPullRequestWritten ==
  \A j \in EventIds :
    events[j].op \in {"PullRequests.Create", "PullRequests.Edit"} => ~events[j].ok

\* C20: each of these conditions ends createPR as a fatal error (exit code
\* 1, a message on standard error), with no call made after it, none
\* repeated, and no pull request created or updated: a failure of the
\* current-branch lookup, the detached HEAD, a failure of the default-branch
\* lookup, the current branch being the default branch, a failure of the
\* diff, the empty diff, a failure of the changed-files lookup, a missing or
\* unparsable remote URL, a failure of the token lookup, and a failure of
\* the list, create or update call.
C20_FatalAbort ==
  /\ \A j \in EventIds :
       (events[j].op \in FatalOps /\ ~events[j].ok)
         => FatalExit /\ j = Len(events) /\ NoPullRequestWritten
  /\ cli.currentBranch = Branch_HEAD
       => FatalExit /\ LastCallIs("CurrentBranch") /\ NoPullRequestWritten
  /\ (cli.currentBranch # <<>> /\ cli.currentBranch = cli.defaultBranch)
       => FatalExit /\ LastCallIs("DefaultBranch") /\ NoPullRequestWritten
  /\ ((\E j \in EventIds : events[j] = Called("DiffAgainstDefault", TRUE)) /\ diff = <<>>)
       => FatalExit /\ LastCallIs("DiffAgainstDefault") /\ NoPullRequestWritten
  /\ \A i, j \in EventIds : events[i].op = events[j].op => i = j

\* a run that found an open pull request and ended on the failure of its update
C20_Witness ==
  /\ LastCallIs("PullRequests.Edit")
  /\ ~events[Len(events)].ok
  /\ cli.exitCode = 1
  /\ cli.stderr = <<"E", "r", "r", "o", "r", ":", " ", "f", "a", "i", "l", "e", "d", " ", "t", "o", " ", "c", "r", "e", "a", "t", "e", "/", "u", "p", "d", "a", "t", "e", " ", "p", "u", "l", "l", " ", "r", "e", "q", "u", "e", "s", "t", ":", " ", "f", "a", "i", "l", "e", "d", " ", "t", "o", " ", "u", "p", "d", "a", "t", "e", " ", "p", "u", "l", "l", " ", "r", "e", "q", "u", "e", "s", "t", ":", " ", "4", "0", "1", " ", "B", "a", "d", " ", "c", "r", "e", "d", "e", "n", "t", "i", "a", "l", "s", NL>>

\* a run that ended on the empty diff
C20_EmptyDiffWitness ==
  /\ LastCallIs("DiffAgainstDefault")
  /\ events[Len(events)].ok
  /\ cli.exitCode = 1
  /\ cli.stderr = <<"E", "r", "r", "o", "r", ":", " ", "n", "o", " ", "c", "h", "a", "n", "g", "e", "s", " ", "d", "e", "t", "e", "c", "t", "e", "d", " ", "b", "e", "t", "w", "e", "e", "n", " ", "f", "e", "a", "t", "u", "r", "e", " ", "a", "n", "d", " ", "m", "a", "i", "n", NL>>

\* the requests createPR has sent to the GitHub API that write a pull request
MutatingRequests == {k \in 1..Len(cli.requests) : cli.requests[k].op # "List"}

\* C21: CreateOrUpdatePullRequest first lists the open pull requests of head
\* owner:branch and sends at most one mutating request after it: when the
\* list has a pull request, an Edit of the first one with the title and the
\* body only (no draft flag, no Create), reported as updated once it
\* succeeded; when the list is empty, a Create with title, body, head, base
\* and draft, reported as not updated; when the list call fails, the error
\* is returned and neither is sent.
C21_OneMutatingCall ==
  LET reqs == cli.requests
      mut == MutatingRequests
      listed == \E j \in EventIds : events[j] = Called("PullRequests.List", TRUE)
      listFailed == \E j \in EventIds : events[j] = Called("PullRequests.List", FALSE)
  IN /\ Cardinality(mut) <= 1
     /\ \A k \in 1..Len(reqs) :
          reqs[k].op = "List"
            => /\ k = 1
               /\ reqs[k] = [op |-> "List", owner |-> cli.owner, repo |-> cli.repoName,
                             head |-> cli.owner \o <<":">> \o cli.currentBranch,
                             state |-> "open"]
     /\ \A k \in mut :
          /\ k = 2 /\ reqs[1].op = "List" /\ listed
          /\ reqs[k].op = (IF Len(cli.pulls) > 0 THEN "Edit" ELSE "Create")
          /\ reqs[k].op = "Edit"
               => /\ DOMAIN reqs[k] = {"op", "owner", "repo", "number", "title", "body"}
                  /\ reqs[k].number = cli.pulls[1]
                  /\ reqs[k].title = title /\ reqs[k].body = body
          /\ reqs[k].op = "Create"
               => reqs[k] = [op |-> "Create", owner |-> cli.owner, repo |-> cli.repoName,
                             title |-> title, head |-> cli.currentBranch,
                             base |-> cli.defaultBranch, body |-> body,
                             draft |-> cli.draft]
     /\ cli.updated <=> (\E j \in EventIds : events[j] = Called("PullRequests.Edit", TRUE))
     /\ (cli.pc = "done" /\ cli.exitCode = 0)
          => /\ Cardinality(mut) = 1
             /\ cli.updated <=> (Len(cli.pulls) > 0)
             /\ cli.stdout[Len(cli.stdout)] =
                  (IF cli.updated THEN "Pull request updated" ELSE "Pull request created")
     /\ listFailed => (mut = {} /\ cli.exitCode = 1 /\ ~cli.updated)

\* a run with --draft that found two open pull requests of the branch and
\* updated the first one
C21_Witness ==
  /\ cli.pc = "done" /\ cli.exitCode = 0
  /\ cli.draft /\ cli.updated
  /\ cli.pulls = <<9, 7>>
  /\ Len(cli.requests) = 2
  /\ cli.requests[2].op = "Edit" /\ cli.requests[2].number = 9

\* a run with --draft that found no open pull request and created one
C21_CreateWitness ==
  /\ cli.pc = "done" /\ cli.exitCode = 0
  /\ cli.draft /\ ~cli.updated
  /\ Len(cli.requests) = 2
  /\ cli.requests[2].op = "Create" /\ cli.requests[2].draft

\* the body of the run before the template step: the one given with --body,
\* or the summary GenerateSummary produced
UnappliedBody ==
  IF \E j \in EventIds : events[j].op = "GenerateSummary"
    THEN summaryText(diff, changedFiles)
    ELSE Body_custom

\* the call after call j is op, or the run is about to make it
ProceedsTo(j, op, pc) ==
  IF j = Len(events)
    THEN cli.pc = pc /\ cli.exitCode = -1
    ELSE events[j + 1].op = op

\* C22: a failure of PushCurrentBranch or of the template lookup does not
\* abort createPR: after a failed push the next call is GetToken, after a
\* failed lookup GetPullRequestTemplate returns no error and the next call
\* is the list call of CreateOrUpdatePullRequest, a run that ends as a fatal
\* error ends on another call, and a run whose token lookup succeeded
\* reaches CreateOrUpdatePullRequest; when no template is obtained
\* ApplyTemplate is not called and the body is sent as it was.
C22_PushAndTemplateNotFatal ==
  LET unapplied == UnappliedBody IN
  /\ \A j \in EventIds :
       events[j] = Called("PushCurrentBranch", FALSE)
         => ProceedsTo(j, "GetToken", "GetToken")
  /\ \A j \in EventIds :
       events[j] = Called("Repositories.GetContents", FALSE)
         => /\ j + 1 <= Len(events)
            /\ events[j + 1] = Called("GetPullRequestTemplate", TRUE)
            /\ template = <<>>
            /\ ProceedsTo(j + 1, "PullRequests.List", "List")
  /\ (cli.pc = "done" /\ cli.exitCode = 1)
       => events[Len(events)].op \notin {"PushCurrentBranch", "Repositories.GetContents",
                                         "GetPullRequestTemplate", "ApplyTemplate"}
  /\ (cli.pc = "done" /\ \E j \in EventIds : events[j] = Called("GetToken", TRUE))
       => \E j \in EventIds : events[j].op = "PullRequests.List"
  /\ ((\E j \in EventIds : events[j].op = "GetPullRequestTemplate") /\ template = <<>>)
       => /\ \A j \in EventIds : events[j].op # "ApplyTemplate"
          /\ body = unapplied
          /\ \A k \in MutatingRequests : cli.requests[k].body = unapplied

\* a run whose push failed and whose template lookup failed, and which then
\* created the pull request with the generated summary as its body
C22_Witness ==
  /\ cli.pc = "done" /\ cli.exitCode = 0
  /\ \E j \in EventIds : events[j] = Called("PushCurrentBranch", FALSE)
  /\ \E j \in EventIds : events[j] = Called("Repositories.GetContents", FALSE)
  /\ \E j \in EventIds : events[j].op = "GenerateSummary"
  /\ \E k \in MutatingRequests :
       /\ cli.requests[k].op = "Create"
       /\ cli.requests[k].body = summaryText(diff, changedFiles)

\* the text holds one of the eight section headings
HasSectionHeading(text) ==
  \E k \in 1..Len(SectionPatterns) : Occurrences(text, SectionPatterns[k]) # {}

RECURSIVE SubstituteThrough(_, _, _, _)
\* s with the first k placeholders of the list substituted, one after the
\* other: the title for the first four, the summary for the others
SubstituteThrough(s, k, ttl, summary) ==
  IF k = 0 THEN s
  ELSE SubstituteAll(SubstituteThrough(s, k - 1, ttl, summary), PlaceholderList[k],
                     IF k <= 4 THEN ttl ELSE summary)

\* C23: when the (non-empty) template holds none of the eight section
\* headings, the result of ApplyTemplate is exactly the template with the
\* placeholders substituted, nothing else inserted or removed, for every
\* title and every summary, a summary produced by GenerateSummary included.
C23_NoHeadingNoFill ==
  \A c \in ApplyCallIds :
    (template # <<>> /\ ~HasSectionHeading(template))
      => applyCalls[c].result = SubstituteThrough(template, 12, title, body)

\* what holds instead: the result is the substituted template whenever the
\* substituted text, and not only the template, holds no section heading
C23_NoHeadingAfterSubstitution ==
  \A c \in ApplyCallIds :
    LET substituted == SubstituteThrough(template, 12, title, body) IN
      (template # <<>> /\ ~HasSectionHeading(substituted))
        => applyCalls[c].result = substituted

\* a call on a template without a heading and with a summary placeholder,
\* and the summary of GenerateSummary: its "## Changed Files" section comes
\* twice in the result
C23_DuplicatedSection ==
  \E c \in ApplyCallIds :
    /\ template = T_placeholders
    /\ body = Body_generated
    /\ ~HasSectionHeading(template)
    /\ Cardinality(Occurrences(SubstituteThrough(template, 12, title, body),
                               <<"#", "#", " ", "C", "h", "a", "n", "g", "e", "d", " ", "F", "i", "l", "e", "s">>)) = 1
    /\ Cardinality(Occurrences(applyCalls[c].result,
                               <<"#", "#", " ", "C", "h", "a", "n", "g", "e", "d", " ", "F", "i", "l", "e", "s">>)) = 2

====
